---- MODULE Spec2Model ----
(***************************************************************************)
(* Session memory of the research agent: the resident cache and the        *)
(* one-file-per-session durable store of ResearchMemoryManager             *)
(* (memory_manager.py) and the request workflow of ResearchAgent           *)
(* (research_chain.py) that drives it.                                     *)
(*                                                                         *)
(* A query is modelled by its whitespace-separated tokens, the clock by a  *)
(* counter of ticks (the three datetime.now() of create_session may read   *)
(* different ticks), a pickle file by its readable content or by an        *)
(* unreadable one.                                                         *)
(***************************************************************************)
EXTENDS Integers, Sequences, FiniteSets, TLC

VARIABLES
    now,        \* the wall clock, in ticks
    active,     \* ResearchMemoryManager._active_sessions: session_id -> session
    disk,       \* storage_path/*.pkl: session_id -> file
    req,        \* the ResearchAgent request in flight, or the last one finished
    last,       \* the store or agent call made by the last step, with its outcome
    calls,      \* the number of calls made by callers so far
    faults,     \* the number of calls whose durable writes failed so far
    threads     \* the calls that run concurrently inside the store, with the
                \* objects they hold; NoThreads while the calls come one by one

vars == <<now, active, disk, req, last, calls, faults, threads>>

----
\* Bounds of the model.

\* The clock runs from 0 to MaxTime beside the callers of the store,
MaxTime == 2
\* and from 0 to MaxAgentTime beside the requests of the agent.
MaxAgentTime == 1
\* At most MaxSessions session ids are in the store at a time.
MaxSessions == 2
\* Callers make at most MaxCalls calls of the store (sweeps are not counted:
\* they only take sessions away).
MaxCalls == 3
\* The agent is asked for at most MaxRequests requests.
MaxRequests == 2
\* The durable writes of at most MaxFaults calls or request steps fail.
MaxFaults == 1
\* sweep is called with a retention age of 0..MaxAge ticks.
MaxAge == 1
\* list_by_user is called with a limit of 1..MaxLimit.
MaxLimit == 2
\* The oldest sessions among which start-up leaves one out.
MaxLeftOut == 2
MaxSimilarCalls == 1

Users == {"u1", "u2"}
Queries == {<< >>, <<"AI", "safety">>}
Roles == {"user", "assistant"}
Payloads == {"A", "B"}
\* The numbers of usable articles an extraction may yield.
ArticleCounts == {0, 1}

\* The outcomes of one _save_session: the record is written; open() raises
\* and the file is left as it was; pickle.dump raises after open(..., 'wb')
\* has truncated the file, which leaves an unreadable record.
WriteOutcomes == {"ok", "open_fails", "dump_fails"}

----
\* Program constants.

\* _load_recent_sessions(limit = 20)
WarmCacheSize == 20
\* find_similar_research(similarity_threshold = 0.7), in tenths
SimilarityThresholdTenths == 7
\* find_similar_research returns similar_sessions[:5]
SimilarCap == 5
\* get_research_context: conversation_history[-10:]
HistoryWindow == 10
\* _extract_insights_from_history returns insights[:5]
InsightCap == 5
\* _enhance_query_with_context: get_user_research_history(limit = 5)
EnhanceHistoryLimit == 5
\* _enhance_query_with_context: len(w) > 4
KeywordMinLen == 4
\* _enhance_query_with_context: relevant_keywords[:3]
EnhanceCap == 3

\* get_research_insights: get_user_research_history(user_id, limit=50)
InsightHistoryLimit == 50
\* get_research_insights: len(word) > 3
TopicMinLen == 3
\* get_research_insights: sorted(...)[:10]
TopTopicsCap == 10
\* _generate_user_insights: len(sessions) > 10
VolumeThreshold == 10
\* _generate_user_insights: timedelta(days=7), one tick of the clock a day
RecentDays == 7
\* _generate_user_insights: len(recent_sessions) > 3
RecentThreshold == 3

\* ResearchMemoryManager(max_sessions = 100)
max_sessions == 100

\* The thresholds find_similar_research is called with, in tenths: the
\* default and a lower one.
Thresholds == {3, SimilarityThresholdTenths}

----
\* Values.

NoTime == -1
NoThreads == << >>
NoId == <<"none">>
EmptyResults == [kind |-> "empty"]

\* str.lower() on the tokens of the model.
Lower(tok) == CASE tok = "AI" -> "ai"
                [] tok = "Safety" -> "safety"
                [] OTHER -> tok

\* len() of the tokens of the model.
TokLen(tok) == CASE tok = "AI" -> 2
                 [] tok = "ai" -> 2
                 [] tok = "safety" -> 6
                 [] tok = "research" -> 8
                 [] tok = "policy" -> 6
                 [] tok = "law" -> 3
                 [] tok = "Safety" -> 6
                 [] tok = "learn" -> 5
                 [] tok = "learning" -> 8
                 [] tok = "machine" -> 7
                 [] OTHER -> 0

\* "a in b" for lower-cased tokens of the model: "learn" lies inside
\* "learning", and no other token inside another one.
IsSubstring(a, b) == a = b \/ (a = "learn" /\ b = "learning")

\* set(query.lower().split())
TokenSet(q) == {Lower(q[i]) : i \in DOMAIN q}

\* A pickle file: <<session>> when it unpickles, << >> when it does not.
Readable(f) == f # << >>

\* The two tiers as one value, so that the calls of one handler compose.
Store(a, d) == [active |-> a, disk |-> d]

Put(f, k, v) == (k :> v) @@ f
Drop(f, ks) == [k \in (DOMAIN f) \ ks |-> f[k]]

----
\* ResearchMemoryManager

\* hashlib.md5(content.encode()).hexdigest()[:12]: a function of the content
\* alone. Distinct contents of the model are given distinct digests.
Md5Prefix(content) == <<"md5", content>>

\* f"{user_id}_{query}_{datetime.now().isoformat()}", hashed.
generate_session_id(user_id, query, t) == Md5Prefix(<<user_id, "_", query, "_", t>>)

\* _save_session: the whole session is pickled over its file; an exception
\* is caught and printed.
save_session(S, sid, w, t) ==
    CASE w = "ok" ->
            Store(S.active, Put(S.disk, sid, <<S.active[sid]>>))
      [] w = "dump_fails" ->
            Store(S.active, Put(S.disk, sid, << >>))
      [] OTHER -> S

\* _load_session: a readable file replaces the resident entry; a missing or
\* unreadable one changes nothing (the error is printed, the file is kept).
load_session(S, sid) ==
    IF sid \in DOMAIN S.disk /\ Readable(S.disk[sid])
    THEN Store(Put(S.active, sid, S.disk[sid][1]), S.disk)
    ELSE S

\* A _load_session that also returns the session that is resident and has
\* no readable file.
load_session_found_or_resident(S, sid) ==
    \/ sid \in DOMAIN S.active
    \/ sid \in DOMAIN S.disk /\ Readable(S.disk[sid])

\* What _load_session returns is a session, as opposed to None.
load_session_found(S, sid) == sid \in DOMAIN S.disk /\ Readable(S.disk[sid])

\* A lookup that stops at the resident cache.
ensure_loaded_resident_only(S, sid) == S

\* "if session_id not in self._active_sessions: self._load_session(session_id)"
ensure_loaded(S, sid) == IF sid \in DOMAIN S.active THEN S ELSE load_session(S, sid)

NewSession(sid, user_id, query, timestamp, created_at) ==
    [session_id |-> sid, user_id |-> user_id, query |-> query, timestamp |-> timestamp,
     research_results |-> EmptyResults,
     conversation_history |-> << >>,
     metadata |-> [created_at |-> created_at, last_updated |-> NoTime]]

\* create_session reads the clock three times: t for the id, then timestamp,
\* then created_at.
create_session(S, user_id, query, t, timestamp, created_at, w) ==
    LET sid == generate_session_id(user_id, query, t)
    IN  save_session(Store(Put(S.active, sid,
                               NewSession(sid, user_id, query, timestamp, created_at)),
                           S.disk),
                     sid, w, created_at)

Turn(role, content, t, metadata) ==
    [role |-> role, content |-> content, timestamp |-> t, metadata |-> metadata]

\* add_conversation_turn without its test `if session_id in
\* self._active_sessions`: an unknown id gets a session of its own.
add_conversation_turn_unguarded(S, sid, role, content, metadata, t, w) ==
    LET L == ensure_loaded(S, sid)
        s == IF sid \in DOMAIN L.active THEN L.active[sid]
             ELSE NewSession(sid, "", << >>, t, t)
        s2 == [s EXCEPT !.conversation_history =
                           Append(@, Turn(role, content, t, metadata))]
    IN  save_session(Store(Put(L.active, sid, s2), L.disk), sid, w, t)

\* add_conversation_turn that puts the new turn first.
add_conversation_turn_prepends(S, sid, role, content, metadata, t, w) ==
    LET L == ensure_loaded(S, sid)
    IN  IF sid \in DOMAIN L.active
        THEN LET s == L.active[sid]
                 s2 == [s EXCEPT !.conversation_history =
                                    <<Turn(role, content, t, metadata)>> \o @]
             IN  save_session(Store(Put(L.active, sid, s2), L.disk), sid, w, t)
        ELSE L

\* add_conversation_turn
add_conversation_turn(S, sid, role, content, metadata, t, w) ==
    LET L == ensure_loaded(S, sid)
    IN  IF sid \in DOMAIN L.active
        THEN LET s == L.active[sid]
                 s2 == [s EXCEPT !.conversation_history =
                                    Append(@, Turn(role, content, t, metadata))]
             IN  save_session(Store(Put(L.active, sid, s2), L.disk), sid, w, t)
        ELSE L

\* update_research_results that forgets self._save_session(session).
update_research_results_unsaved(S, sid, results, t, w) ==
    LET L == ensure_loaded(S, sid)
    IN  IF sid \in DOMAIN L.active
        THEN Store(Put(L.active, sid, [L.active[sid] EXCEPT !.research_results = results,
                                                            !.metadata.last_updated = t]),
                   L.disk)
        ELSE L

\* update_research_results
update_research_results(S, sid, results, t, w) ==
    LET L == ensure_loaded(S, sid)
    IN  IF sid \in DOMAIN L.active
        THEN LET s == L.active[sid]
                 s2 == [s EXCEPT !.research_results = results,
                                 !.metadata.last_updated = t]
             IN  save_session(Store(Put(L.active, sid, s2), L.disk), sid, w, t)
        ELSE L

\* The summary dictionary built by get_user_research_history and
\* _load_user_sessions for one session.
Summary(s) ==
    [session_id |-> s.session_id, query |-> s.query, timestamp |-> s.timestamp,
     has_results |-> s.research_results # EmptyResults]

\* The sequences that enumerate a set once each: the orders in which a dict
\* or a glob may yield its entries.
Orders(set) ==
    {f \in [1..Cardinality(set) -> set] : \A i, j \in DOMAIN f : f[i] = f[j] => i = j}

\* user_sessions.sort(key=lambda x: x["timestamp"], reverse=True): stable,
\* newest first.
RECURSIVE InsertByTimestamp(_, _)
InsertByTimestamp(sorted, x) ==
    IF sorted = << >> THEN <<x>>
    ELSE IF Head(sorted).timestamp >= x.timestamp
         THEN <<Head(sorted)>> \o InsertByTimestamp(Tail(sorted), x)
         ELSE <<x>> \o sorted

RECURSIVE SortByTimestamp(_)
SortByTimestamp(seq) ==
    IF seq = << >> THEN << >>
    ELSE InsertByTimestamp(SortByTimestamp(SubSeq(seq, 1, Len(seq) - 1)), seq[Len(seq)])

Take(seq, n) == SubSeq(seq, 1, IF n < Len(seq) THEN n ELSE Len(seq))

SelectUser(seq, user_id) == SelectSeq(seq, LAMBDA s : s.user_id = user_id)

\* _load_user_sessions: every readable file of the user, in glob order; an
\* unreadable file is skipped. The limit argument is not used.
load_user_sessions(S, user_id, limit, globOrder) ==
    LET files == SelectSeq(globOrder, LAMBDA k : Readable(S.disk[k]))
        sessions == [i \in DOMAIN files |-> S.disk[files[i]][1]]
        mine == SelectUser(sessions, user_id)
    IN  [i \in DOMAIN mine |-> Summary(mine[i])]

\* get_user_research_history that cuts the list without sorting it.
get_user_research_history_unsorted(S, user_id, limit, dictOrder, globOrder) ==
    LET resident == [i \in DOMAIN dictOrder |-> S.active[dictOrder[i]]]
        mine == SelectUser(resident, user_id)
        user_sessions == [i \in DOMAIN mine |-> Summary(mine[i])]
        all == IF Len(user_sessions) < limit
               THEN user_sessions \o
                    load_user_sessions(S, user_id, limit - Len(user_sessions), globOrder)
               ELSE user_sessions
    IN  Take(all, limit)

\* get_user_research_history: dictOrder is the iteration order of
\* _active_sessions, globOrder the order of storage_path.glob("*.pkl").
get_user_research_history(S, user_id, limit, dictOrder, globOrder) ==
    LET resident == [i \in DOMAIN dictOrder |-> S.active[dictOrder[i]]]
        mine == SelectUser(resident, user_id)
        user_sessions == [i \in DOMAIN mine |-> Summary(mine[i])]
        all == IF Len(user_sessions) < limit
               THEN user_sessions \o
                    load_user_sessions(S, user_id, limit - Len(user_sessions), globOrder)
               ELSE user_sessions
    IN  Take(SortByTimestamp(all), limit)

\* cleanup_old_sessions that forgets the resident sessions: only the files
\* go.
cleanup_old_sessions_files_only(S, days_old, t) ==
    LET cutoff_date == t - days_old
        files_to_remove == {k \in DOMAIN S.disk :
                               IF Readable(S.disk[k])
                               THEN S.disk[k][1].timestamp < cutoff_date
                               ELSE TRUE}
    IN  Store(S.active, Drop(S.disk, files_to_remove))

\* cleanup_old_sessions that forgets the session files: only the resident
\* sessions older than the cutoff go.
cleanup_old_sessions_resident_only(S, days_old, t) ==
    LET cutoff_date == t - days_old
        sessions_to_remove == {k \in DOMAIN S.active : S.active[k].timestamp < cutoff_date}
    IN  Store(Drop(S.active, sessions_to_remove), S.disk)

\* cleanup_old_sessions: resident sessions and readable files older than
\* the cutoff go, and so does every file that does not unpickle.
cleanup_old_sessions(S, days_old, t) ==
    LET cutoff_date == t - days_old
        sessions_to_remove == {k \in DOMAIN S.active : S.active[k].timestamp < cutoff_date}
        files_to_remove == {k \in DOMAIN S.disk :
                               IF Readable(S.disk[k])
                               THEN S.disk[k][1].timestamp < cutoff_date
                               ELSE TRUE}
    IN  Store(Drop(S.active, sessions_to_remove), Drop(S.disk, files_to_remove))

\* The files _load_recent_sessions may pick: session_files[:limit] after the
\* sort by st_mtime. The model keeps no st_mtime: any `limit` files may be
\* the most recently modified ones.
RecentFiles(d, limit) ==
    LET n == IF Cardinality(DOMAIN d) < limit THEN Cardinality(DOMAIN d) ELSE limit
    IN  {K \in SUBSET DOMAIN d : Cardinality(K) = n}

\* _load_recent_sessions, from an empty cache: the readable files among the
\* picked ones become resident, the unreadable ones are skipped.
load_recent_sessions(d, picked) ==
    LET ok == {k \in picked : Readable(d[k])}
    IN  Store([k \in ok |-> d[k][1]], d)

\* A similarity that divides by the number of tokens of the candidate.
Similarity_of_candidate(qa, qb) ==
    [inter |-> Cardinality(TokenSet(qa) \cap TokenSet(qb)),
     union |-> Cardinality(TokenSet(qa))]

\* The similarity of two queries as the fraction inter/union of their
\* lower-cased token sets; union = 0 is where the division raises.
Similarity(qa, qb) ==
    [inter |-> Cardinality(TokenSet(qa) \cap TokenSet(qb)),
     union |-> Cardinality(TokenSet(qa) \cup TokenSet(qb))]

\* a.inter/a.union >= b.inter/b.union, for non-zero unions.
SimGeq(a, b) == a.inter * b.union >= b.inter * a.union

\* similar_sessions.sort(key=lambda x: x["similarity"], reverse=True)
RECURSIVE InsertBySimilarity(_, _)
InsertBySimilarity(sorted, x) ==
    IF sorted = << >> THEN <<x>>
    ELSE IF SimGeq(Head(sorted).similarity, x.similarity)
         THEN <<Head(sorted)>> \o InsertBySimilarity(Tail(sorted), x)
         ELSE <<x>> \o sorted

RECURSIVE SortBySimilarity(_)
SortBySimilarity(seq) ==
    IF seq = << >> THEN << >>
    ELSE InsertBySimilarity(SortBySimilarity(SubSeq(seq, 1, Len(seq) - 1)), seq[Len(seq)])

\* user_id = None and user_id = "": "if user_id and ..." takes both for "no
\* user given".
NoUser == "None"
EmptyUser == ""
Falsy(user_id) == user_id \in {NoUser, EmptyUser}

\* The sessions find_similar_research compares with: "if user_id and
\* session.user_id != user_id: continue".
Scanned(S, user_id) ==
    {k \in DOMAIN S.active : Falsy(user_id) \/ S.active[k].user_id = user_id}

\* find_similar_research raises ZeroDivisionError: some scanned session has
\* an empty union with the query.
find_similar_raises(S, query, user_id) ==
    \E k \in Scanned(S, user_id) : Similarity(query, S.active[k].query).union = 0

\* find_similar_research that cuts the matches without sorting them.
find_similar_research_unsorted(S, query, user_id, tenths, dictOrder) ==
    LET scan == SelectSeq(dictOrder, LAMBDA k : k \in Scanned(S, user_id))
        hit(k) == LET sim == Similarity(query, S.active[k].query)
                  IN  sim.inter * 10 >= tenths * sim.union
        hits == SelectSeq(scan, hit)
        similar_sessions ==
            [i \in DOMAIN hits |->
                LET s == S.active[hits[i]]
                IN  [session_id |-> s.session_id, query |-> s.query,
                     similarity |-> Similarity(query, s.query),
                     timestamp |-> s.timestamp,
                     has_results |-> s.research_results # EmptyResults]]
    IN  Take(similar_sessions, SimilarCap)

\* find_similar_research with the default threshold whatever the caller gives.
find_similar_research_default_threshold(S, query, user_id, tenths, dictOrder) ==
    LET scan == SelectSeq(dictOrder, LAMBDA k : k \in Scanned(S, user_id))
        hit(k) == LET sim == Similarity(query, S.active[k].query)
                  IN  sim.inter * 10 >= SimilarityThresholdTenths * sim.union
        hits == SelectSeq(scan, hit)
        similar_sessions ==
            [i \in DOMAIN hits |->
                LET s == S.active[hits[i]]
                IN  [session_id |-> s.session_id, query |-> s.query,
                     similarity |-> Similarity(query, s.query),
                     timestamp |-> s.timestamp,
                     has_results |-> s.research_results # EmptyResults]]
    IN  Take(SortBySimilarity(similar_sessions), SimilarCap)

\* find_similar_research, when it does not raise. The threshold is given in
\* tenths: similarity >= tenths/10.
find_similar_research(S, query, user_id, tenths, dictOrder) ==
    LET scan == SelectSeq(dictOrder, LAMBDA k : k \in Scanned(S, user_id))
        hit(k) == LET sim == Similarity(query, S.active[k].query)
                  IN  sim.inter * 10 >= tenths * sim.union
        hits == SelectSeq(scan, hit)
        similar_sessions ==
            [i \in DOMAIN hits |->
                LET s == S.active[hits[i]]
                IN  [session_id |-> s.session_id, query |-> s.query,
                     similarity |-> Similarity(query, s.query),
                     timestamp |-> s.timestamp,
                     has_results |-> s.research_results # EmptyResults]]
    IN  Take(SortBySimilarity(similar_sessions), SimilarCap)

\* The text of a turn: the orchestrator's messages by their template and
\* arguments, a caller's text by its name.
Content(tag, query, n) == [tag |-> tag, query |-> query, n |-> n]

\* f"Error: {error_msg}"
ErrorContent(error_msg) == [tag |-> "error", query |-> << >>, n |-> 0, msg |-> error_msg]

\* len(turn["content"]): the orchestrator's assistant messages ("Found N
\* similar research topics from your history.", "Error: ...", "Research
\* completed successfully. ...") all stay below 100 characters, and so does
\* the caller's text "text". The other texts are answers: "long" n has 120
\* characters and a first sentence of 40; "indented" n is "long" n after 4
\* blanks; "padded" n opens with 4 blanks and a sentence of 19; "short_head"
\* n opens with a sentence of 10 and "twenty" n with one of 20; "hundred" n
\* has 100 characters and a first sentence of 40; "nosep" n has 120
\* characters and no ". " at all.
ContentLen(c) == CASE c.tag = "completed" -> 89
                   [] c.tag = "similar" -> 53
                   [] c.tag = "long" -> 120
                   [] c.tag = "indented" -> 124
                   [] c.tag = "padded" -> 120
                   [] c.tag = "short_head" -> 120
                   [] c.tag = "twenty" -> 120
                   [] c.tag = "hundred" -> 100
                   [] c.tag = "nosep" -> 120
                   [] OTHER -> 30

\* turn["content"].split('. ')[0]
FirstPiece(c) == CASE c.tag = "completed" -> Content("completed_head", c.query, 0)
                  [] c.tag = "long" -> Content("long_head", c.query, c.n)
                  [] c.tag = "indented" -> Content("indented_piece", c.query, c.n)
                  [] c.tag = "padded" -> Content("padded_piece", c.query, c.n)
                  [] c.tag = "short_head" -> Content("short_head_head", c.query, c.n)
                  [] c.tag = "twenty" -> Content("twenty_head", c.query, c.n)
                  [] c.tag = "hundred" -> Content("hundred_head", c.query, c.n)
                  [] OTHER -> c
FirstPieceLen(c) == CASE c.tag = "completed" -> 31
                     [] c.tag = "long" -> 40
                     [] c.tag = "indented" -> 44
                     [] c.tag = "padded" -> 23
                     [] c.tag = "short_head" -> 10
                     [] c.tag = "twenty" -> 20
                     [] c.tag = "hundred" -> 40
                     [] OTHER -> ContentLen(c)

\* str.strip() of a first piece: the blanks in front go.
Strip(p) == CASE p.tag = "indented_piece" -> Content("long_head", p.query, p.n)
             [] p.tag = "padded_piece" -> Content("padded_head", p.query, p.n)
             [] OTHER -> p
StripLen(p, len) == IF p.tag \in {"indented_piece", "padded_piece"} THEN len - 4 ELSE len

\* turn["content"].split('. ')[0].strip()
FirstSentence(c) == Strip(FirstPiece(c))
FirstSentenceLen(c) == StripLen(FirstPiece(c), FirstPieceLen(c))

\* _extract_insights_from_history
RECURSIVE extract_insights_from_history(_)
extract_insights_from_history(history) ==
    IF history = << >> THEN << >>
    ELSE LET before == extract_insights_from_history(SubSeq(history, 1, Len(history) - 1))
             turn == history[Len(history)]
             insight == FirstSentence(turn.content)
         IN  IF /\ turn.role = "assistant"
                /\ ContentLen(turn.content) > 100
                /\ FirstSentenceLen(turn.content) > 20
                /\ \A i \in DOMAIN before : before[i] # insight
             THEN Append(before, insight)
             ELSE before

\* "return insights[-5:]": the last five in the place of the first five.
top_insights_last_five(history) ==
    LET all == extract_insights_from_history(history)
    IN  SubSeq(all, IF Len(all) > InsightCap THEN Len(all) - InsightCap + 1 ELSE 1, Len(all))

\* "return insights[:5]"
top_insights(history) == Take(extract_insights_from_history(history), InsightCap)

LastTurns(history, n) ==
    SubSeq(history, IF Len(history) > n THEN Len(history) - n + 1 ELSE 1, Len(history))

\* get_research_context that takes the insights from the whole history.
get_research_context_all_insights(S, sid, include_history) ==
    LET L == ensure_loaded(S, sid)
    IN  IF sid \notin DOMAIN L.active THEN [found |-> FALSE]
        ELSE LET session == L.active[sid]
                 recent_history == LastTurns(session.conversation_history, HistoryWindow)
             IN  IF include_history /\ session.conversation_history # << >>
                 THEN [found |-> TRUE,
                       current_query |-> session.query,
                       previous_results |-> session.research_results,
                       session_metadata |-> session.metadata,
                       conversation_history |-> recent_history,
                       previous_insights |->
                           top_insights(session.conversation_history)]
                 ELSE [found |-> TRUE,
                       current_query |-> session.query,
                       previous_results |-> session.research_results,
                       session_metadata |-> session.metadata]

\* get_research_context, the value returned; the store it leaves is
\* ensure_loaded(S, sid).
get_research_context(S, sid, include_history) ==
    LET L == ensure_loaded(S, sid)
    IN  IF sid \notin DOMAIN L.active THEN [found |-> FALSE]
        ELSE LET session == L.active[sid]
                 recent_history == LastTurns(session.conversation_history, HistoryWindow)
             IN  IF include_history /\ session.conversation_history # << >>
                 THEN [found |-> TRUE,
                       current_query |-> session.query,
                       previous_results |-> session.research_results,
                       session_metadata |-> session.metadata,
                       conversation_history |-> recent_history,
                       previous_insights |->
                           top_insights(recent_history)]
                 ELSE [found |-> TRUE,
                       current_query |-> session.query,
                       previous_results |-> session.research_results,
                       session_metadata |-> session.metadata]

\* get_research_insights, lines 226-230: the words counted, in the order
\* in which the loop meets them.
RECURSIVE topic_words(_)
topic_words(user_sessions) ==
    IF user_sessions = << >> THEN << >>
    ELSE LET q == user_sessions[Len(user_sessions)].query
             words == [j \in DOMAIN q |-> Lower(q[j])]
         IN  topic_words(SubSeq(user_sessions, 1, Len(user_sessions) - 1))
                 \o SelectSeq(words, LAMBDA w : TokLen(w) > TopicMinLen)

\* topics.items(): every word with its count, in the order of insertion.
topic_items(words) ==
    LET first == {i \in DOMAIN words : \A k \in 1..(i - 1) : words[k] # words[i]}
        nth(i) == CHOOSE k \in first : Cardinality({m \in first : m < k}) = i - 1
    IN  [i \in 1..Cardinality(first) |->
            [topic |-> words[nth(i)],
             count |-> Cardinality({k \in DOMAIN words : words[k] = words[nth(i)]})]]

\* sorted(topics.items(), key=lambda x: x[1], reverse=True): a stable sort.
RECURSIVE InsertByCount(_, _)
InsertByCount(sorted, x) ==
    IF sorted = << >> THEN <<x>>
    ELSE IF Head(sorted).count >= x.count
         THEN <<Head(sorted)>> \o InsertByCount(Tail(sorted), x)
         ELSE <<x>> \o sorted

RECURSIVE SortByCount(_)
SortByCount(seq) ==
    IF seq = << >> THEN << >>
    ELSE InsertByCount(SortByCount(SubSeq(seq, 1, Len(seq) - 1)), seq[Len(seq)])

\* The summaries whose timestamp is later than 7 days before t.
recent_sessions(sessions, t) == SelectSeq(sessions, LAMBDA s : s.timestamp > t - RecentDays)

Observation(kind, topic, n) == [kind |-> kind, topic |-> topic, n |-> n]

\* _generate_user_insights
generate_user_insights(sessions, top_topics, t) ==
    IF sessions = << >> THEN << >>
    ELSE (IF Len(sessions) > VolumeThreshold
          THEN <<Observation("volume", "", Len(sessions))>> ELSE << >>)
         \o (IF top_topics # << >>
             THEN <<Observation("topic", top_topics[1].topic, 0)>> ELSE << >>)
         \o (IF Len(recent_sessions(sessions, t)) > RecentThreshold
             THEN <<Observation("recency", "", 0)>> ELSE << >>)

\* get_research_insights
get_research_insights(S, user_id, t, dictOrder, globOrder) ==
    LET user_sessions == get_user_research_history(S, user_id, InsightHistoryLimit,
                                                   dictOrder, globOrder)
        top_topics == Take(SortByCount(topic_items(topic_words(user_sessions))),
                           TopTopicsCap)
    IN  IF user_sessions = << >>
        THEN [total_sessions |-> 0, top_topics |-> << >>, recent_activity |-> 0,
              insights |-> << >>]
        ELSE [total_sessions |-> Len(user_sessions),
              top_topics |-> top_topics,
              recent_activity |-> Len(recent_sessions(user_sessions, t)),
              insights |-> generate_user_insights(user_sessions, top_topics, t)]

----
\* ResearchAgent

Terminal == {"COMPLETE", "FAILED"}

IdleRequest ==
    [stage |-> "IDLE", user_id |-> NoUser, query |-> << >>, use_memory |-> FALSE,
     session_id |-> NoId, continued |-> NoId, search_query |-> << >>, articles |-> 0,
     failure |-> "none", result |-> [status |-> "none"]]

EmptyDict == << >>

\* The text of the error turn and of the returned error.
NoSearchResults == "No search results found"
NoContent == "No content could be extracted"
ResearchFailed == "Research failed: division by zero"
SessionNotFound == "Session not found"

ErrorResult(error_msg, sid) == [status |-> "error", error |-> error_msg, session_id |-> sid]

\* self.memory.add_conversation_turn(self.current_session_id, "assistant",
\* f"Error: {error_msg}")
add_error_turn(S, sid, error_msg, t, w) ==
    add_conversation_turn(S, sid, "assistant", ErrorContent(error_msg), EmptyDict, t, w)

\* len(find_similar_research(query, user_id)): the number of hits does not
\* depend on the order of the scan.
similar_count(S, query, user_id) ==
    Len(find_similar_research(S, query, user_id, SimilarityThresholdTenths,
                              CHOOSE o \in Orders(DOMAIN S.active) : TRUE))

\* research_topic, lines 40-60, and the except branch when
\* find_similar_research raises: the store they leave.
begin_research(S, r, t, w) ==
    LET S1 == add_conversation_turn(S, r.session_id, "user", Content("request", r.query, 0),
                                    EmptyDict, t, w)
    IN  IF ~r.use_memory THEN S1
        ELSE IF find_similar_raises(S1, r.query, r.user_id)
             THEN add_error_turn(S1, r.session_id, ResearchFailed, t, w)
        ELSE IF similar_count(S1, r.query, r.user_id) > 0
             THEN add_conversation_turn(S1, r.session_id, "assistant",
                      Content("similar", << >>, similar_count(S1, r.query, r.user_id)),
                      [similar_research_count |-> similar_count(S1, r.query, r.user_id)],
                      t, w)
        ELSE S1

begin_raises(S, r, t, w) ==
    /\ r.use_memory
    /\ find_similar_raises(
           add_conversation_turn(S, r.session_id, "user", Content("request", r.query, 0),
                                 EmptyDict, t, w),
           r.query, r.user_id)

\* _enhance_query_with_context: the keywords that may follow the query.
\* history is get_user_research_history(self.user_id, limit=5).
relevant_keywords(query, history) ==
    LET all_keywords == UNION {{history[i].query[j] : j \in DOMAIN history[i].query}
                                 : i \in DOMAIN history}
        long == {kw \in all_keywords : TokLen(kw) > KeywordMinLen}
    IN  {kw \in long : \E qw \in TokenSet(query) :
                           IsSubstring(qw, Lower(kw)) \/ IsSubstring(Lower(kw), qw)}

\* relevant_keywords[:3] of a list made from a set: any EnhanceCap of them,
\* in any order.
Picks(set) ==
    LET n == IF Cardinality(set) < EnhanceCap THEN Cardinality(set) ELSE EnhanceCap
    IN  {f \in [1..n -> set] : \A i, j \in 1..n : f[i] = f[j] => i = j}

\* _enhance_query_with_context: the search strings it may return when the
\* dict and the glob yield their entries in the given orders.
enhance_query_with_context(S, r, dictOrder, globOrder) ==
    LET L == ensure_loaded(S, r.session_id)
        user_history == get_user_research_history(L, r.user_id, EnhanceHistoryLimit,
                                                  dictOrder, globOrder)
        relevant == relevant_keywords(r.query, user_history)
    IN  IF user_history # << >> /\ relevant # {}
        THEN {r.query \o extra : extra \in Picks(relevant)}
        ELSE {r.query}

\* "search_query = self._enhance_query_with_context(query) if use_memory else
\* query": the values it may take.
search_queries(S, r) ==
    IF r.use_memory
    THEN LET L == ensure_loaded(S, r.session_id)
         IN  UNION {enhance_query_with_context(S, r, dictOrder, globOrder) :
                       dictOrder \in Orders(DOMAIN L.active),
                       globOrder \in Orders(DOMAIN L.disk)}
    ELSE {r.query}

\* The dictionary research_topic stores and returns on success.
research_results(r, llm_ok) ==
    [kind |-> "research", query |-> r.query,
     summary |-> [llm_ok |-> llm_ok, articles_analyzed |-> r.articles],
     total_sources |-> r.articles, status |-> "success", session_id |-> r.session_id,
     enhanced_query |-> IF r.search_query # r.query THEN r.search_query ELSE << >>]

\* research_topic that returns its results without update_research_results.
summarize_without_update(S, r, llm_ok, t, w) ==
    add_conversation_turn(ensure_loaded(S, r.session_id), r.session_id, "assistant",
                          Content("completed", << >>, r.articles),
                          [articles_processed |-> r.articles,
                           word_count |-> IF llm_ok THEN 1 ELSE 0],
                          t, w)

\* research_topic, lines 98-124: _generate_summary_with_memory reads the
\* context (which loads the session when it is not resident), then the
\* results are stored and the completion turn is appended.
summarize(S, r, llm_ok, t, w) ==
    LET S1 == ensure_loaded(S, r.session_id)
        S2 == update_research_results(S1, r.session_id, research_results(r, llm_ok), t, w)
    IN  add_conversation_turn(S2, r.session_id, "assistant",
                              Content("completed", << >>, r.articles),
                              [articles_processed |-> r.articles,
                               word_count |-> IF llm_ok THEN 1 ELSE 0],
                              t, w)

----
\* The steps.

UnknownId == Md5Prefix(<<"nobody">>)
KnownIds == DOMAIN active \cup DOMAIN disk
\* The ids a caller may pass: those of the store, the one of the request (its
\* session may be gone by now) and one that was never allocated.
CallIds == KnownIds \cup {UnknownId} \cup ({req.session_id} \ {NoId})

Here == Store(active, disk)

\* The model keeps at most MaxSessions ids in the store.
RoomFor(sid) == Cardinality(KnownIds \cup {sid}) <= MaxSessions

\* The call reaches _save_session for this session.
Saves(S, sid) == sid \in DOMAIN ensure_loaded(S, sid).active

\* A caller's call that leaves store S; saved tells whether it reached
\* _save_session, w how its writes went.
Call(S, saved, w) ==
    /\ calls < MaxCalls
    /\ w # "ok" => saved /\ faults < MaxFaults
    /\ calls' = calls + 1
    /\ faults' = IF w # "ok" THEN faults + 1 ELSE faults
    /\ active' = S.active
    /\ disk' = S.disk
    /\ UNCHANGED threads

\* A request made of the agent, whose first step leaves store S.
Request(S, saved, w) ==
    /\ calls < MaxRequests
    /\ w # "ok" => saved /\ faults < MaxFaults
    /\ calls' = calls + 1
    /\ faults' = IF w # "ok" THEN faults + 1 ELSE faults
    /\ active' = S.active
    /\ disk' = S.disk
    /\ UNCHANGED threads

\* A step of the request in flight that leaves store S.
Step(S, saved, w) ==
    /\ w # "ok" => saved /\ faults < MaxFaults
    /\ faults' = IF w # "ok" THEN faults + 1 ELSE faults
    /\ active' = S.active
    /\ disk' = S.disk
    /\ UNCHANGED <<calls, threads>>

\* The clock advances.
Advance(bound) ==
    /\ now < bound
    /\ now' = now + 1
    /\ last' = [op |-> "tick", created |-> NoId]
    /\ UNCHANGED <<active, disk, req, calls, faults, threads>>

Tick == Advance(MaxTime)

AgentTick == Advance(MaxAgentTime)

\* The second and the third reading of the clock in create_session, after a
\* first one that gave now: the clock may have advanced by then.
ClockReads(bound) ==
    {r \in (now..(now + 1)) \X (now..(now + 1)) : r[1] <= r[2] /\ r[2] <= bound}

CreateSession(user_id, query, w) ==
    LET sid == generate_session_id(user_id, query, now)
    IN  /\ RoomFor(sid)
        /\ \E r \in ClockReads(MaxTime) :
              /\ Call(create_session(Here, user_id, query, now, r[1], r[2], w), TRUE, w)
              /\ last' = [op |-> "create_session", session_id |-> sid, created |-> sid,
                          user_id |-> user_id, query |-> query,
                          timestamp |-> r[1], created_at |-> r[2]]
              /\ now' = r[2]
        /\ UNCHANGED req

AppendTurn(sid, role, w) ==
    /\ Call(add_conversation_turn(Here, sid, role, Content("text", << >>, 0), EmptyDict, now, w),
            Saves(Here, sid), w)
    /\ last' = [op |-> "add_conversation_turn", session_id |-> sid, created |-> NoId,
                turn |-> Turn(role, Content("text", << >>, 0), now, EmptyDict)]
    /\ UNCHANGED <<now, req>>

UpdateResults(sid, payload, w) ==
    /\ Call(update_research_results(Here, sid, [kind |-> payload], now, w),
            Saves(Here, sid), w)
    /\ last' = [op |-> "update_research_results", session_id |-> sid, created |-> NoId,
                results |-> [kind |-> payload]]
    /\ UNCHANGED <<now, req>>

\* get_session_history: found is FALSE where the method returns None.
GetSessionHistory(sid) ==
    /\ Call(ensure_loaded(Here, sid), FALSE, "ok")
    /\ last' = [op |-> "get_session_history", session_id |-> sid, created |-> NoId,
                found |-> sid \in DOMAIN ensure_loaded(Here, sid).active,
                history |-> IF sid \in DOMAIN ensure_loaded(Here, sid).active
                            THEN ensure_loaded(Here, sid).active[sid].conversation_history
                            ELSE << >>]
    /\ UNCHANGED <<now, req>>

\* export_session_data: found is FALSE where the method returns None.
ExportSession(sid) ==
    /\ Call(ensure_loaded(Here, sid), FALSE, "ok")
    /\ last' = IF sid \in DOMAIN ensure_loaded(Here, sid).active
               THEN [op |-> "export_session_data", session_id |-> sid, created |-> NoId,
                     found |-> TRUE, session |-> ensure_loaded(Here, sid).active[sid],
                     export_timestamp |-> now]
               ELSE [op |-> "export_session_data", session_id |-> sid, created |-> NoId,
                     found |-> FALSE]
    /\ UNCHANGED <<now, req>>

ComposeContext(sid, include_history) ==
    /\ Call(ensure_loaded(Here, sid), FALSE, "ok")
    /\ last' = [op |-> "get_research_context", session_id |-> sid, created |-> NoId,
                include_history |-> include_history,
                context |-> get_research_context(Here, sid, include_history)]
    /\ UNCHANGED <<now, req>>

ListByUser(user_id, limit, dictOrder, globOrder) ==
    /\ Call(Here, FALSE, "ok")
    /\ last' = [op |-> "get_user_research_history", user_id |-> user_id, limit |-> limit,
                created |-> NoId,
                history |-> get_user_research_history(Here, user_id, limit,
                                                      dictOrder, globOrder)]
    /\ UNCHANGED <<now, req>>

\* A call of find_similar_research and its outcome.
SimilarCall(query, user_id, tenths, dictOrder) ==
    [op |-> "find_similar_research", query |-> query, user_id |-> user_id,
     tenths |-> tenths, created |-> NoId,
     raised |-> find_similar_raises(Here, query, user_id),
     similar |-> IF find_similar_raises(Here, query, user_id) THEN << >>
                 ELSE find_similar_research(Here, query, user_id, tenths, dictOrder)]

FindSimilar(query, user_id, tenths, dictOrder) ==
    /\ Call(Here, FALSE, "ok")
    /\ last' = SimilarCall(query, user_id, tenths, dictOrder)
    /\ UNCHANGED <<now, req>>

\* get_research_insights and its outcome. Where the user has no session
\* the method returns total_sessions and insights alone.
ResearchInsights(user_id, dictOrder, globOrder) ==
    /\ Call(Here, FALSE, "ok")
    /\ last' = [op |-> "get_research_insights", user_id |-> user_id, created |-> NoId,
                result |-> get_research_insights(Here, user_id, now, dictOrder, globOrder)]
    /\ UNCHANGED <<now, req>>

Sweep(days_old) ==
    LET S == cleanup_old_sessions(Here, days_old, now)
    IN  /\ active' = S.active
        /\ disk' = S.disk
        /\ last' = [op |-> "cleanup_old_sessions", days_old |-> days_old, created |-> NoId,
                    removed |-> KnownIds \ (DOMAIN S.active \cup DOMAIN S.disk)]
        /\ UNCHANGED <<now, req, calls, faults, threads>>

\* A new process: ResearchMemoryManager() starts with an empty cache and
\* calls _load_recent_sessions; the request that was running is gone.
Restart(picked) ==
    /\ Call(load_recent_sessions(disk, picked), FALSE, "ok")
    /\ req' = IdleRequest
    /\ last' = [op |-> "restart", created |-> NoId, picked |-> picked]
    /\ UNCHANGED now

\* research_topic, line 37: the request creates its session.
ResearchTopic(user_id, query, use_memory, w) ==
    LET sid == generate_session_id(user_id, query, now)
    IN  /\ req.stage \in Terminal \cup {"IDLE"}
        /\ RoomFor(sid)
        /\ \E r \in ClockReads(MaxAgentTime) :
              /\ Request(create_session(Here, user_id, query, now, r[1], r[2], w), TRUE, w)
              /\ now' = r[2]
        /\ req' = [IdleRequest EXCEPT !.stage = "CREATED", !.user_id = user_id,
                                      !.query = query, !.use_memory = use_memory,
                                      !.session_id = sid, !.search_query = query]
        /\ last' = [op |-> "research_topic", session_id |-> sid, created |-> sid]

\* continue_research_session up to and including the create_session of the
\* research_topic it ends with.
ContinueSession(user_id, session_id, additional_query, w) ==
    LET sid == generate_session_id(user_id, additional_query, now)
        S1 == add_conversation_turn(load_session(Here, session_id), session_id, "user",
                                    Content("followup", additional_query, 0), EmptyDict, now, w)
    IN  /\ req.stage \in Terminal \cup {"IDLE"}
        /\ IF load_session_found(Here, session_id)
           THEN /\ RoomFor(sid)
                /\ \E r \in ClockReads(MaxAgentTime) :
                      /\ Request(create_session(S1, user_id, additional_query, now,
                                                r[1], r[2], w), TRUE, w)
                      /\ now' = r[2]
                /\ req' = [IdleRequest EXCEPT !.stage = "CREATED", !.user_id = user_id,
                                              !.query = additional_query, !.use_memory = TRUE,
                                              !.session_id = sid, !.continued = session_id,
                                              !.search_query = additional_query]
                /\ last' = [op |-> "continue_research_session", session_id |-> session_id,
                            created |-> sid]
           ELSE /\ Request(Here, FALSE, w)
                /\ req' = [IdleRequest EXCEPT !.stage = "FAILED", !.user_id = user_id,
                                              !.query = additional_query,
                                              !.continued = session_id,
                                              !.failure = "not_found",
                                              !.result = [status |-> "error",
                                                          error |-> SessionNotFound]]
                /\ last' = [op |-> "continue_research_session", session_id |-> session_id,
                            created |-> NoId]
                /\ UNCHANGED now

\* research_topic that, when it finds similar research, takes it for the
\* material and goes straight to the summary.
BeginResearch_reuses_similar(w) ==
    /\ req.stage = "CREATED"
    /\ Step(begin_research(Here, req, now, w), Saves(Here, req.session_id), w)
    /\ req' = IF begin_raises(Here, req, now, w)
              THEN [req EXCEPT !.stage = "FAILED", !.failure = "exception",
                               !.result = ErrorResult(ResearchFailed, req.session_id)]
              ELSE IF req.use_memory /\ Saves(Here, req.session_id)
                      /\ similar_count(begin_research(Here, req, now, w),
                                       req.query, req.user_id) > 0
              THEN [req EXCEPT !.stage = "SUMMARIZING", !.articles = 1]
              ELSE [req EXCEPT !.stage = "SEARCHING"]
    /\ last' = [op |-> "begin", session_id |-> req.session_id, created |-> NoId]
    /\ UNCHANGED now

\* research_topic, lines 40-60.
BeginResearch(w) ==
    /\ req.stage = "CREATED"
    /\ Step(begin_research(Here, req, now, w), Saves(Here, req.session_id), w)
    /\ req' = IF begin_raises(Here, req, now, w)
              THEN [req EXCEPT !.stage = "FAILED", !.failure = "exception",
                               !.result = ErrorResult(ResearchFailed, req.session_id)]
              ELSE [req EXCEPT !.stage = "SEARCHING"]
    /\ last' = [op |-> "begin", session_id |-> req.session_id, created |-> NoId]
    /\ UNCHANGED now

\* research_topic, lines 67-77: the search string, the search, and the error
\* turn when nothing is found (_web_search returns [] when the search raises).
WebSearch(found, search_query, w) ==
    /\ req.stage = "SEARCHING"
    /\ LET L == IF req.use_memory THEN ensure_loaded(Here, req.session_id) ELSE Here
       IN  IF found
           THEN /\ Step(L, FALSE, w)
                /\ req' = [req EXCEPT !.stage = "EXTRACTING", !.search_query = search_query]
           ELSE /\ Step(add_error_turn(L, req.session_id, NoSearchResults, now, w),
                        Saves(L, req.session_id), w)
                /\ req' = [req EXCEPT !.stage = "FAILED", !.search_query = search_query,
                                      !.failure = "search_empty",
                                      !.result = ErrorResult(NoSearchResults, req.session_id)]
    /\ last' = [op |-> "search", session_id |-> req.session_id, created |-> NoId]
    /\ UNCHANGED now

\* research_topic, lines 83-92: n usable articles come out of _extract_articles.
ExtractArticles(n, w) ==
    /\ req.stage = "EXTRACTING"
    /\ IF n > 0
       THEN /\ Step(Here, FALSE, w)
            /\ req' = [req EXCEPT !.stage = "SUMMARIZING", !.articles = n]
       ELSE /\ Step(add_error_turn(Here, req.session_id, NoContent, now, w),
                    Saves(Here, req.session_id), w)
            /\ req' = [req EXCEPT !.stage = "FAILED", !.failure = "no_articles",
                                  !.result = ErrorResult(NoContent, req.session_id)]
    /\ last' = [op |-> "extract", session_id |-> req.session_id, created |-> NoId]
    /\ UNCHANGED now

\* research_topic that has another search made when self.llm.invoke raises.
Summarize_retries(llm_ok, w) ==
    /\ req.stage = "SUMMARIZING"
    /\ IF llm_ok
       THEN /\ Step(summarize(Here, req, llm_ok, now, w), Saves(Here, req.session_id), w)
            /\ req' = [req EXCEPT !.stage = "COMPLETE", !.failure = "none",
                                  !.result = research_results(req, llm_ok)]
       ELSE /\ Step(Here, FALSE, w)
            /\ req' = [req EXCEPT !.stage = "SEARCHING"]
    /\ last' = [op |-> "summarize", session_id |-> req.session_id, created |-> NoId]
    /\ UNCHANGED now

\* research_topic, lines 98-129: llm_ok tells whether self.llm.invoke returned.
Summarize(llm_ok, w) ==
    /\ req.stage = "SUMMARIZING"
    /\ Step(summarize(Here, req, llm_ok, now, w), Saves(Here, req.session_id), w)
    /\ req' = [req EXCEPT !.stage = "COMPLETE",
                          !.failure = IF llm_ok THEN "none" ELSE "llm_raised",
                          !.result = research_results(req, llm_ok)]
    /\ last' = [op |-> "summarize", session_id |-> req.session_id, created |-> NoId]
    /\ UNCHANGED now

Init ==
    /\ now = 0
    /\ active = << >>
    /\ disk = << >>
    /\ req = IdleRequest
    /\ last = [op |-> "init", created |-> NoId]
    /\ calls = 0
    /\ faults = 0
    /\ threads = NoThreads

\* The store under its callers.
Next ==
    \/ Tick
    \/ \E u \in Users, q \in Queries, w \in WriteOutcomes : CreateSession(u, q, w)
    \/ \E sid \in CallIds, r \in Roles, w \in WriteOutcomes : AppendTurn(sid, r, w)
    \/ \E sid \in CallIds, p \in Payloads, w \in WriteOutcomes : UpdateResults(sid, p, w)
    \/ \E sid \in CallIds : GetSessionHistory(sid)
    \/ \E sid \in CallIds : ExportSession(sid)
    \/ \E sid \in CallIds, ih \in BOOLEAN : ComposeContext(sid, ih)
    \/ \E u \in Users, limit \in 1..MaxLimit :
           \E dictOrder \in Orders(DOMAIN active), globOrder \in Orders(DOMAIN disk) :
              ListByUser(u, limit, dictOrder, globOrder)
    \/ \E q \in Queries, u \in Users \cup {NoUser, EmptyUser}, tenths \in Thresholds :
           \E dictOrder \in Orders(DOMAIN active) : FindSimilar(q, u, tenths, dictOrder)
    \/ \E d \in 0..MaxAge : Sweep(d)
    \/ \E picked \in RecentFiles(disk, WarmCacheSize) : Restart(picked)

Spec == Init /\ [][Next]_vars

\* The agent under its callers, with the clock and the sweep running beside
\* its requests.
AgentNext ==
    \/ AgentTick
    \/ \E d \in 0..MaxAge : Sweep(d)
    \/ \E u \in Users, q \in Queries, um \in BOOLEAN, w \in WriteOutcomes :
           ResearchTopic(u, q, um, w)
    \/ \E u \in Users, sid \in CallIds, q \in Queries, w \in WriteOutcomes :
           ContinueSession(u, sid, q, w)
    \/ \E w \in WriteOutcomes : BeginResearch(w)
    \/ \E sq \in search_queries(Here, req) : \E found \in BOOLEAN, w \in WriteOutcomes :
           WebSearch(found, sq, w)
    \/ \E n \in ArticleCounts, w \in WriteOutcomes : ExtractArticles(n, w)
    \/ \E llm_ok \in BOOLEAN, w \in WriteOutcomes : Summarize(llm_ok, w)

AgentSpec == Init /\ [][AgentNext]_vars

\* The step of research_topic that is due: the statements up to the search,
\* the search, the extraction, or the summary with the storing.
RequestStep ==
    \/ \E w \in WriteOutcomes : BeginResearch(w)
    \/ \E sq \in search_queries(Here, req) : \E found \in BOOLEAN, w \in WriteOutcomes :
           WebSearch(found, sq, w)
    \/ \E n \in ArticleCounts, w \in WriteOutcomes : ExtractArticles(n, w)
    \/ \E llm_ok \in BOOLEAN, w \in WriteOutcomes : Summarize(llm_ok, w)

\* research_topic is between its create_session and its return.
Running == req.stage \in {"CREATED", "SEARCHING", "EXTRACTING", "SUMMARIZING"}

\* The agent when every call of a collaborator returns or raises:
\* research_topic runs its statements one after the other in the thread of
\* its caller, so the step that is due is taken. The condition is
\* WF_vars(RequestStep) with ENABLED <<RequestStep>>_vars written out: a
\* step is due exactly while the request is running (with w = "ok" every
\* guard of Step holds, search_queries is never empty, and each step
\* changes req.stage).
FairAgentSpec ==
    AgentSpec /\ ([]<>(~Running) \/ []<><<RequestStep>>_vars)

\* A store with one session file more than start-up loads: session i was
\* created at time i and, unless i is a multiple of 3, given a turn and
\* results at once.
ColdCount == WarmCacheSize + 1

ColdSession(i) ==
    LET user_id == IF i % 2 = 0 THEN "u1" ELSE "u2"
        query == <<"AI", "safety">>
        fresh == NewSession(generate_session_id(user_id, query, i), user_id, query, i, i)
    IN  IF i % 3 = 0 THEN fresh
        ELSE [fresh EXCEPT !.conversation_history =
                               <<Turn("user", Content("text", << >>, 0), i, EmptyDict)>>,
                           !.research_results = [kind |-> "A"],
                           !.metadata.last_updated = i]

ColdDisk ==
    LET sessions == {ColdSession(i) : i \in 1..ColdCount}
    IN  [k \in {s.session_id : s \in sessions} |->
            <<CHOOSE s \in sessions : s.session_id = k>>]

\* The file start-up leaves out is the least recently modified one: one of
\* the oldest sessions of the model.
ColdLeftOut == {ColdSession(i).session_id : i \in 1..MaxLeftOut}

\* ResearchMemoryManager() on that store: all files but one become resident.
ColdInit ==
    /\ now = ColdCount
    /\ disk = ColdDisk
    /\ \E out \in ColdLeftOut :
          active = load_recent_sessions(ColdDisk, DOMAIN ColdDisk \ {out}).active
    /\ req = IdleRequest
    /\ last = [op |-> "init", created |-> NoId]
    /\ calls = 0
    /\ faults = 0
    /\ threads = NoThreads

\* The ids the callers pass to that store: those left out at start-up, two
\* that may be resident, and one that was never allocated.
ColdCallIds ==
    (DOMAIN disk \ DOMAIN active) \cup ColdLeftOut \cup {UnknownId}

ColdNext ==
    \/ \E sid \in ColdCallIds, w \in WriteOutcomes : AppendTurn(sid, "assistant", w)
    \/ \E sid \in ColdCallIds, w \in WriteOutcomes : UpdateResults(sid, "B", w)
    \/ \E sid \in ColdCallIds : GetSessionHistory(sid)
    \/ \E sid \in ColdCallIds : ExportSession(sid)
    \/ \E sid \in ColdCallIds, ih \in BOOLEAN : ComposeContext(sid, ih)

ColdSpec == ColdInit /\ [][ColdNext]_vars

\* A store that holds any of eight sessions of two users, whose queries
\* overlap with one another in part: the inputs of find_similar_research.
SimQueries ==
    {<< >>,
     <<"AI", "safety">>,
     <<"AI", "safety", "research">>,
     <<"ai", "safety", "policy", "law">>,
     <<"AI", "ai", "safety">>}

SimPool ==
    <<[user_id |-> "u1", query |-> <<"AI", "safety">>, t |-> 0],
      [user_id |-> "u1", query |-> <<"AI", "safety", "research">>, t |-> 0],
      [user_id |-> "u1", query |-> <<"ai", "safety", "policy", "law">>, t |-> 0],
      [user_id |-> "u1", query |-> <<"AI", "ai", "safety">>, t |-> 0],
      [user_id |-> "u1", query |-> <<"AI", "safety">>, t |-> 1],
      [user_id |-> "u1", query |-> <<"AI", "safety", "research">>, t |-> 1],
      [user_id |-> "u2", query |-> <<"AI", "safety">>, t |-> 0],
      [user_id |-> "u2", query |-> <<"ai", "safety", "policy", "law">>, t |-> 1]>>

\* create_session for entry i of the pool, followed for the even entries by
\* update_research_results.
SimSession(i) ==
    LET e == SimPool[i]
        fresh == NewSession(generate_session_id(e.user_id, e.query, e.t),
                            e.user_id, e.query, e.t, e.t)
    IN  IF i % 2 = 0
        THEN [fresh EXCEPT !.research_results = [kind |-> "A"],
                           !.metadata.last_updated = e.t]
        ELSE fresh

\* The resident sessions and their files when the entries in chosen have
\* been created.
SimActive(chosen) ==
    LET sessions == {SimSession(i) : i \in chosen}
    IN  [k \in {s.session_id : s \in sessions} |->
            CHOOSE s \in sessions : s.session_id = k]

SimInit ==
    /\ now = 2
    /\ \E chosen \in SUBSET DOMAIN SimPool :
          /\ active = SimActive(chosen)
          /\ disk = [k \in DOMAIN SimActive(chosen) |-> <<SimActive(chosen)[k]>>]
    /\ req = IdleRequest
    /\ last = [op |-> "init", created |-> NoId]
    /\ calls = 0
    /\ faults = 0
    /\ threads = NoThreads

\* The order in which _active_sessions yields its sessions: the order of
\* their insertion, which is that of their creation in a running store and
\* the reverse one after a start-up that loads the newest file first.
SimOrders ==
    LET ids == [i \in DOMAIN SimPool |-> SimSession(i).session_id]
        created == SelectSeq(ids, LAMBDA k : k \in DOMAIN active)
    IN  {created, [i \in DOMAIN created |-> created[Len(created) + 1 - i]]}

SimNext ==
    \E q \in SimQueries, u \in Users \cup {NoUser, EmptyUser}, tenths \in Thresholds :
        \E dictOrder \in SimOrders :
           /\ calls < MaxSimilarCalls
           /\ FindSimilar(q, u, tenths, dictOrder)

SimSpec == SimInit /\ [][SimNext]_vars

\* A store with one session whose history is a stretch of twelve turns:
\* answers long enough to give an insight, two of them given twice, a short
\* completion message and two turns of the user.
HistPool ==
    <<Turn("assistant", Content("long", << >>, 1), 1, EmptyDict),
      Turn("user", Content("text", << >>, 0), 2, EmptyDict),
      Turn("assistant", Content("long", << >>, 2), 3, EmptyDict),
      Turn("assistant", Content("long", << >>, 3), 4, EmptyDict),
      Turn("assistant", Content("long", << >>, 2), 5, EmptyDict),
      Turn("assistant", Content("completed", << >>, 1), 6, EmptyDict),
      Turn("assistant", Content("long", << >>, 4), 7, EmptyDict),
      Turn("assistant", Content("long", << >>, 5), 8, EmptyDict),
      Turn("user", Content("text", << >>, 0), 9, EmptyDict),
      Turn("assistant", Content("long", << >>, 6), 10, EmptyDict),
      Turn("assistant", Content("long", << >>, 7), 11, EmptyDict),
      Turn("assistant", Content("long", << >>, 1), 12, EmptyDict)>>

HistSession(from, to, kind) ==
    LET fresh == NewSession(generate_session_id("u1", <<"AI", "safety">>, 0),
                            "u1", <<"AI", "safety">>, 0, 0)
    IN  [fresh EXCEPT !.conversation_history = SubSeq(HistPool, from, to),
                      !.research_results = IF kind = "empty" THEN EmptyResults
                                           ELSE [kind |-> kind],
                      !.metadata.last_updated = IF kind = "empty" THEN NoTime ELSE 0]

\* The session is resident or, in a store started with more files than it
\* loads, only in its file.
HistInit ==
    /\ now = Len(HistPool) + 1
    /\ \E from \in DOMAIN HistPool, to \in {0} \cup DOMAIN HistPool,
          kind \in {"empty", "A"}, resident \in BOOLEAN :
          LET s == HistSession(from, to, kind)
          IN  /\ from <= to + 1
              /\ to = 0 => from = 1
              /\ disk = [k \in {s.session_id} |-> <<s>>]
              /\ active = IF resident THEN [k \in {s.session_id} |-> s] ELSE << >>
    /\ req = IdleRequest
    /\ last = [op |-> "init", created |-> NoId]
    /\ calls = 0
    /\ faults = 0
    /\ threads = NoThreads

HistNext ==
    \/ \E sid \in CallIds, ih \in BOOLEAN : ComposeContext(sid, ih)
    \/ \E sid \in CallIds, r \in Roles, w \in WriteOutcomes : AppendTurn(sid, r, w)

HistSpec == HistInit /\ [][HistNext]_vars

----
\* Two calls that run at the same time inside one store, as the requests of
\* different users do on the shared research_memory: each is a thread that
\* goes through the statements of its method, and the threads take turns
\* between any two of them. The store holds one session, created at time 0.
\* The cache refers to objects of the heap; pickle.load makes a new object,
\* pickle.dump writes the object it was given as it is at that moment.

Workers == {"t1", "t2"}

RaceId == generate_session_id("u1", <<"AI", "safety">>, 0)
RaceSession == NewSession(RaceId, "u1", <<"AI", "safety">>, 0, 0)

\* The role of the turn a worker appends, the payload it stores.
RoleOf(t) == IF t = "t1" THEN "user" ELSE "assistant"
PayloadOf(t) == IF t = "t1" THEN "A" ELSE "B"

\* The entry of _active_sessions as the heap has it.
ResidentObject(T) == IF T.cur = 0 THEN << >> ELSE [k \in {RaceId} |-> T.heap[T.cur]]

\* A statement of thread t at position pc.
At(t, pc) == threads # NoThreads /\ threads.pc[t] = pc

\* The thread's statement leaves threads as T and the files as d.
Leaves(T, d) ==
    /\ threads' = T
    /\ active' = ResidentObject(T)
    /\ disk' = d
    /\ last' = [op |-> "concurrent", created |-> NoId]
    /\ UNCHANGED <<now, req, calls, faults>>

Goto(T, t, pc) == [T EXCEPT !.pc[t] = pc]
Raise(T, t) == [T EXCEPT !.pc[t] = "done", !.raised[t] = TRUE]

RaceInit ==
    /\ now = 2
    /\ disk = [k \in {RaceId} |-> <<RaceSession>>]
    /\ \E resident \in BOOLEAN, op1 \in {"append", "update"},
          op2 \in {"append", "update", "sweep"}, days_old \in 0..MaxAge :
          /\ op2 # "sweep" => days_old = 0
          /\ threads =
                [heap |-> IF resident THEN <<RaceSession>> ELSE << >>,
                 cur |-> IF resident THEN 1 ELSE 0,
                 op |-> [t \in Workers |-> IF t = "t1" THEN op1 ELSE op2],
                 pc |-> [t \in Workers |-> IF t = "t2" /\ op2 = "sweep"
                                           THEN "scan" ELSE "start"],
                 ref |-> [t \in Workers |-> 0],
                 fd |-> [t \in Workers |-> FALSE],
                 raised |-> [t \in Workers |-> FALSE],
                 remove |-> FALSE,
                 days_old |-> days_old]
          /\ active = IF resident THEN [k \in {RaceId} |-> RaceSession] ELSE << >>
    /\ req = IdleRequest
    /\ last = [op |-> "init", created |-> NoId]
    /\ calls = 0
    /\ faults = 0

\* add_conversation_turn / update_research_results:
\* "if session_id not in self._active_sessions:"
RaceCheckResident(t) ==
    /\ At(t, "start")
    /\ Leaves(Goto(threads, t, IF threads.cur = 0 THEN "exists" ELSE "check"), disk)

\* _load_session: "if file_path.exists():"
RaceFileExists(t) ==
    /\ At(t, "exists")
    /\ Leaves(Goto(threads, t, IF RaceId \in DOMAIN disk THEN "read" ELSE "check"), disk)

\* _load_session: "with open(file_path, 'rb') as f: session = pickle.load(f)";
\* a file that is gone or does not unpickle raises, which is caught.
RaceUnpickle(t) ==
    /\ At(t, "read")
    /\ IF RaceId \in DOMAIN disk /\ Readable(disk[RaceId])
       THEN Leaves([threads EXCEPT !.heap = Append(@, disk[RaceId][1]),
                                   !.ref[t] = Len(threads.heap) + 1,
                                   !.pc[t] = "put"], disk)
       ELSE Leaves(Goto(threads, t, "check"), disk)

\* _load_session: "self._active_sessions[session_id] = session"
RacePut(t) ==
    /\ At(t, "put")
    /\ Leaves([threads EXCEPT !.cur = threads.ref[t], !.pc[t] = "check"], disk)

\* "if session_id in self._active_sessions:"
RaceCheckLoaded(t) ==
    /\ At(t, "check")
    /\ Leaves(Goto(threads, t, IF threads.cur # 0 THEN "mutate" ELSE "done"), disk)

\* "self._active_sessions[session_id].conversation_history.append(asdict(turn))"
\* or "self._active_sessions[session_id].research_results = results" with
\* the last_updated stamp; KeyError when the entry is gone.
RaceMutate(t) ==
    /\ At(t, "mutate")
    /\ IF threads.cur = 0
       THEN Leaves(Raise(threads, t), disk)
       ELSE LET s == threads.heap[threads.cur]
                s2 == IF threads.op[t] = "append"
                      THEN [s EXCEPT !.conversation_history =
                                        Append(@, Turn(RoleOf(t), Content("text", << >>, 0),
                                                       now, EmptyDict))]
                      ELSE [s EXCEPT !.research_results = [kind |-> PayloadOf(t)],
                                     !.metadata.last_updated = now]
            IN  Leaves([threads EXCEPT !.heap[threads.cur] = s2, !.pc[t] = "save"], disk)

\* "self._save_session(self._active_sessions[session_id])": the argument is
\* looked up; KeyError when the entry is gone.
RaceSaveLookup(t) ==
    /\ At(t, "save")
    /\ IF threads.cur = 0
       THEN Leaves(Raise(threads, t), disk)
       ELSE Leaves([threads EXCEPT !.ref[t] = threads.cur, !.pc[t] = "open"], disk)

\* _save_session: "with open(file_path, 'wb') as f:" creates or truncates
\* the file.
RaceOpen(t) ==
    /\ At(t, "open")
    /\ Leaves([threads EXCEPT !.fd[t] = TRUE, !.pc[t] = "dump"], Put(disk, RaceId, << >>))

\* A _save_session that opens the file and writes nothing.
RaceDump_writes_nothing(t) ==
    /\ At(t, "dump")
    /\ Leaves([threads EXCEPT !.fd[t] = FALSE, !.pc[t] = "done"], disk)

\* _save_session: "pickle.dump(session, f)" and the close of the file; what
\* is written to a file that was unlinked meanwhile is lost.
RaceDump(t) ==
    /\ At(t, "dump")
    /\ Leaves([threads EXCEPT !.fd[t] = FALSE, !.pc[t] = "done"],
              IF threads.fd[t] THEN Put(disk, RaceId, <<threads.heap[threads.ref[t]]>>)
              ELSE disk)

\* cleanup_old_sessions: the loop that fills sessions_to_remove.
SweepCollect(t) ==
    /\ At(t, "scan")
    /\ Leaves([threads EXCEPT !.remove = /\ threads.cur # 0
                                         /\ threads.heap[threads.cur].timestamp
                                               < now - threads.days_old,
                               !.pc[t] = "delete"], disk)

\* cleanup_old_sessions: "del self._active_sessions[session_id]"
SweepDelete(t) ==
    /\ At(t, "delete")
    /\ IF threads.remove
       THEN IF threads.cur = 0 THEN Leaves(Raise(threads, t), disk)
            ELSE Leaves([threads EXCEPT !.cur = 0, !.pc[t] = "glob"], disk)
       ELSE Leaves(Goto(threads, t, "glob"), disk)

\* cleanup_old_sessions: "for file_path in self.storage_path.glob("*.pkl"):"
SweepGlob(t) ==
    /\ At(t, "glob")
    /\ Leaves(Goto(threads, t, IF RaceId \in DOMAIN disk THEN "inspect" ELSE "done"), disk)

\* cleanup_old_sessions: the file is opened and unpickled; an old session
\* and a file that does not unpickle are to be unlinked.
SweepInspect(t) ==
    /\ At(t, "inspect")
    /\ IF /\ Readable(disk[RaceId])
          /\ disk[RaceId][1].timestamp >= now - threads.days_old
       THEN Leaves(Goto(threads, t, "done"), disk)
       ELSE Leaves(Goto(threads, t, "unlink"), disk)

\* cleanup_old_sessions: "file_path.unlink()"; the writers that have the
\* file open keep a file that has no name any more.
SweepUnlink(t) ==
    /\ At(t, "unlink")
    /\ Leaves([threads EXCEPT !.fd = [w \in Workers |-> FALSE], !.pc[t] = "done"],
              Drop(disk, {RaceId}))

RaceNext ==
    \E t \in Workers :
        \/ RaceCheckResident(t)
        \/ RaceFileExists(t)
        \/ RaceUnpickle(t)
        \/ RacePut(t)
        \/ RaceCheckLoaded(t)
        \/ RaceMutate(t)
        \/ RaceSaveLookup(t)
        \/ RaceOpen(t)
        \/ RaceDump(t)
        \/ SweepCollect(t)
        \/ SweepDelete(t)
        \/ SweepGlob(t)
        \/ SweepInspect(t)
        \/ SweepUnlink(t)

RaceSpec == RaceInit /\ [][RaceNext]_vars

----
\* The store after a start-up that left one file out, with the session of a
\* request that has come to its search: WarmCount sessions were created, the
\* i-th at time i, by the two users in turn, and start-up loaded all but one
\* of their files (any of them may be the least recently modified one: an
\* old session may have been written to last).
WarmCount == WarmCacheSize + 1

WarmQuery(i) ==
    CASE i \in {13, 14} -> <<"machine", "learning">>
      [] i \in {17, 18} -> <<"learn", "policy">>
      [] i \in {19, 20} -> <<"Safety", "law">>
      [] OTHER -> <<"AI", "safety">>

WarmUser(i) == IF i % 2 = 0 THEN "u1" ELSE "u2"

WarmId(i) == generate_session_id(WarmUser(i), WarmQuery(i), i)

WarmSession(i) == NewSession(WarmId(i), WarmUser(i), WarmQuery(i), i, i)

WarmDisk == [k \in {WarmId(i) : i \in 1..WarmCount} |->
                <<CHOOSE s \in {WarmSession(i) : i \in 1..WarmCount} : s.session_id = k>>]

\* The files start-up may have left out.
WarmLeftOut == {WarmId(i) : i \in {1, 2, WarmCount - 1, WarmCount}}

\* The queries of the request.
WarmQueries == {<<"learn", "safety">>, <<"learning">>, <<"AI", "law">>, <<"policy">>}

\* The orders in which the dict and the glob yield the sessions of that
\* store: by time of creation, forward and backward, the session of the
\* request last or first.
WarmOrders(set) ==
    LET n == WarmCount
        own == set \ DOMAIN WarmDisk
        ownSeq == IF own = {} THEN << >> ELSE <<CHOOSE k \in own : TRUE>>
        up == SelectSeq([i \in 1..n |-> WarmId(i)], LAMBDA k : k \in set)
        down == SelectSeq([i \in 1..n |-> WarmId(n + 1 - i)], LAMBDA k : k \in set)
    IN  {up \o ownSeq, ownSeq \o down}

WarmInit ==
    /\ now = WarmCount + 1
    /\ \E out \in WarmLeftOut, u \in Users, q \in WarmQueries :
          LET S == create_session(load_recent_sessions(WarmDisk, DOMAIN WarmDisk \ {out}),
                                  u, q, now, now, now, "ok")
          IN  /\ active = S.active
              /\ disk = S.disk
              /\ req = [IdleRequest EXCEPT !.stage = "SEARCHING", !.user_id = u,
                                           !.query = q, !.use_memory = TRUE,
                                           !.session_id = generate_session_id(u, q, now),
                                           !.search_query = q]
    /\ last = [op |-> "init", created |-> NoId]
    /\ calls = 0
    /\ faults = 0
    /\ threads = NoThreads

\* The request goes on from its search, and the store is asked for the
\* history of a user.
WarmNext ==
    \/ \E dictOrder \in WarmOrders(DOMAIN active), globOrder \in WarmOrders(DOMAIN disk) :
          \E sq \in enhance_query_with_context(Here, req, dictOrder, globOrder) :
             \E found \in BOOLEAN, w \in WriteOutcomes : WebSearch(found, sq, w)
    \/ \E n \in ArticleCounts, w \in WriteOutcomes : ExtractArticles(n, w)
    \/ \E llm_ok \in BOOLEAN, w \in WriteOutcomes : Summarize(llm_ok, w)
    \/ \E u \in Users, limit \in 1..MaxLimit :
          \E dictOrder \in WarmOrders(DOMAIN active), globOrder \in WarmOrders(DOMAIN disk) :
             ListByUser(u, limit, dictOrder, globOrder)

WarmSpec == WarmInit /\ [][WarmNext]_vars

----
\* A store with one session whose history is a stretch of sixteen turns,
\* read forward or backward: answers that give an insight, the same answer
\* after blanks, answers that are too short or open with too short a
\* sentence, an answer without ". ", and a long turn of the user.
InsightPool ==
    <<Turn("assistant", Content("long", << >>, 1), 1, EmptyDict),
      Turn("assistant", Content("indented", << >>, 1), 2, EmptyDict),
      Turn("user", Content("long", << >>, 9), 3, EmptyDict),
      Turn("assistant", Content("padded", << >>, 1), 4, EmptyDict),
      Turn("assistant", Content("long", << >>, 2), 5, EmptyDict),
      Turn("assistant", Content("short_head", << >>, 1), 6, EmptyDict),
      Turn("assistant", Content("twenty", << >>, 1), 7, EmptyDict),
      Turn("assistant", Content("hundred", << >>, 1), 8, EmptyDict),
      Turn("assistant", Content("nosep", << >>, 1), 9, EmptyDict),
      Turn("assistant", Content("long", << >>, 3), 10, EmptyDict),
      Turn("assistant", Content("long", << >>, 2), 11, EmptyDict),
      Turn("assistant", Content("long", << >>, 4), 12, EmptyDict),
      Turn("assistant", Content("long", << >>, 5), 13, EmptyDict),
      Turn("assistant", Content("long", << >>, 6), 14, EmptyDict),
      Turn("assistant", Content("indented", << >>, 7), 15, EmptyDict),
      Turn("assistant", Content("long", << >>, 8), 16, EmptyDict)>>

Reversed(seq) == [i \in DOMAIN seq |-> seq[Len(seq) + 1 - i]]

InsightSession(from, to, backward) ==
    LET fresh == NewSession(generate_session_id("u1", <<"AI", "safety">>, 0),
                            "u1", <<"AI", "safety">>, 0, 0)
        stretch == SubSeq(InsightPool, from, to)
    IN  [fresh EXCEPT !.conversation_history =
                          IF backward THEN Reversed(stretch) ELSE stretch]

InsightInit ==
    /\ now = Len(InsightPool) + 1
    /\ \E from \in DOMAIN InsightPool, to \in DOMAIN InsightPool,
          backward \in BOOLEAN, resident \in BOOLEAN :
          LET s == InsightSession(from, to, backward)
          IN  /\ from <= to
              /\ disk = [k \in {s.session_id} |-> <<s>>]
              /\ active = IF resident THEN [k \in {s.session_id} |-> s] ELSE << >>
    /\ req = IdleRequest
    /\ last = [op |-> "init", created |-> NoId]
    /\ calls = 0
    /\ faults = 0
    /\ threads = NoThreads

InsightSpec == InsightInit /\ [][HistNext]_vars

----
\* A store asked for the research patterns of its users. PatternCount
\* sessions were created, the i-th at time i (one tick a day), all but two
\* of them by u1;
\* the store holds a stretch of them, each resident and on file, or all of
\* them resident only (no write went through), or every other one so.
PatternCount == 14

PatternQuery(i) ==
    CASE i % 3 = 0 -> <<"AI", "law">>
      [] i % 3 = 1 -> <<"AI", "safety">>
      [] OTHER -> <<"policy", "Safety", "research">>

PatternUser(i) == IF i \in {4, 9} THEN "u2" ELSE "u1"

PatternId(i) == generate_session_id(PatternUser(i), PatternQuery(i), i)

PatternSession(i) == NewSession(PatternId(i), PatternUser(i), PatternQuery(i), i, i)

\* The orders in which the dict and the glob yield those sessions: by time
\* of creation, forward and backward.
PatternOrders(set) ==
    {SelectSeq([i \in 1..PatternCount |-> PatternId(i)], LAMBDA k : k \in set),
     SelectSeq([i \in 1..PatternCount |-> PatternId(PatternCount + 1 - i)],
               LAMBDA k : k \in set)}

PatternInit ==
    /\ now \in {PatternCount + 1, PatternCount + RecentDays - 1}
    /\ \E from \in 1..PatternCount, to \in 0..PatternCount,
          written \in {"all", "none", "even"} :
          /\ from <= to + 1
          /\ to = 0 => from = 1
          /\ active = [k \in {PatternId(i) : i \in from..to} |->
                          CHOOSE s \in {PatternSession(i) : i \in from..to} :
                              s.session_id = k]
          /\ disk = [k \in {PatternId(i) : i \in {j \in from..to :
                                  \/ written = "all"
                                  \/ written = "even" /\ j % 2 = 0}} |->
                        <<CHOOSE s \in {PatternSession(i) : i \in from..to} :
                              s.session_id = k>>]
    /\ req = IdleRequest
    /\ last = [op |-> "init", created |-> NoId]
    /\ calls = 0
    /\ faults = 0
    /\ threads = NoThreads

PatternNext ==
    \E u \in Users :
       \E dictOrder \in PatternOrders(DOMAIN active), globOrder \in PatternOrders(DOMAIN disk) :
          ResearchInsights(u, dictOrder, globOrder)

PatternSpec == PatternInit /\ [][PatternNext]_vars

----
\* A store that has been running for a while: FullCount to max_sessions
\* sessions were created in this process, the i-th at time i, and all are
\* resident and on file. Callers go on creating sessions and reading and
\* writing the two oldest ones.
FullCount == max_sessions - 2

FullUser(i) == IF i % 2 = 0 THEN "u1" ELSE "u2"

FullSession(i) ==
    NewSession(generate_session_id(FullUser(i), <<"AI", "safety">>, i),
               FullUser(i), <<"AI", "safety">>, i, i)

FullStore(n) ==
    [k \in {FullSession(i).session_id : i \in 1..n} |->
        CHOOSE s \in {FullSession(i) : i \in 1..n} : s.session_id = k]

FullInit ==
    /\ now = max_sessions + 1
    /\ \E n \in FullCount..max_sessions :
          /\ active = FullStore(n)
          /\ disk = [k \in DOMAIN FullStore(n) |-> <<FullStore(n)[k]>>]
    /\ req = IdleRequest
    /\ last = [op |-> "init", created |-> NoId]
    /\ calls = 0
    /\ faults = 0
    /\ threads = NoThreads

\* create_session on that store.
FullCreate(user_id, query, w) ==
    LET sid == generate_session_id(user_id, query, now)
    IN  \E r \in ClockReads(max_sessions + MaxTime) :
           /\ Call(create_session(Here, user_id, query, now, r[1], r[2], w), TRUE, w)
           /\ last' = [op |-> "create_session", session_id |-> sid, created |-> sid,
                       user_id |-> user_id, query |-> query,
                       timestamp |-> r[1], created_at |-> r[2]]
           /\ now' = r[2]
           /\ UNCHANGED req

FullCallIds == {FullSession(1).session_id, FullSession(2).session_id, UnknownId}

FullNext ==
    \/ \E u \in Users, q \in Queries, w \in WriteOutcomes : FullCreate(u, q, w)
    \/ \E sid \in FullCallIds, r \in Roles, w \in WriteOutcomes : AppendTurn(sid, r, w)
    \/ \E sid \in FullCallIds, p \in Payloads, w \in WriteOutcomes : UpdateResults(sid, p, w)
    \/ \E sid \in FullCallIds : GetSessionHistory(sid)

FullSpec == FullInit /\ [][FullNext]_vars

----
\* The claims.

IsPrefix(a, b) == Len(a) <= Len(b) /\ SubSeq(b, 1, Len(a)) = a

Mutators == {"add_conversation_turn", "update_research_results"}

\* C1: in every step other than a sweep or a fresh start of the process,
\* every resident session stays resident and its conversation_history keeps
\* all its turns, unchanged and in place, at the head of the new history.
C1_AppendOnly ==
    [][last'.op \notin {"cleanup_old_sessions", "restart"} =>
          \A sid \in DOMAIN active :
             /\ sid \in DOMAIN active'
             /\ IsPrefix(active[sid].conversation_history,
                         active'[sid].conversation_history)]_vars

\* C2: the id a create returns is the id of no session that is in the
\* resident cache or in the durable store when create is called.
C2_CreateNeverCollides ==
    [][last'.created # NoId => last'.created \notin KnownIds]_vars

\* C3: an update_results that finds its session leaves exactly its argument
\* as research_results, in place of what was there, and stamps last_updated
\* with the time of the call; until the next one the research_results of the
\* session stay what they are (a fresh start of the process aside).
C3_ReplaceResults ==
    [][\A sid \in DOMAIN active \cap DOMAIN active' :
          IF last'.op = "update_research_results" /\ last'.session_id = sid
          THEN /\ active'[sid].research_results = last'.results
               /\ active'[sid].metadata.last_updated = now
          ELSE last'.op # "restart" =>
                  active'[sid].research_results = active[sid].research_results]_vars

NoDuplicates(seq) == \A i, j \in DOMAIN seq : seq[i].session_id = seq[j].session_id => i = j

\* C4: the sequence list_by_user returns holds each session_id at most once.
C4_ListNoDuplicates ==
    last.op = "get_user_research_history" => NoDuplicates(last.history)

\* C5: a continue_session that finds its session works on that session: the
\* session of the request it starts is the one it was given.
C5_ContinueSameSession ==
    req.continued # NoId /\ req.failure # "not_found" => req.session_id = req.continued

\* C6: a request during which the search came back empty, the extraction
\* gave no usable article or the LLM call raised does not end in COMPLETE.
C6_CollaboratorFailureFails ==
    req.failure \in {"search_empty", "no_articles", "llm_raised"} => req.stage = "FAILED"

\* C7: when a request has returned after a failure (no search result, no
\* usable article, an exception, a failed LLM call), no durable write has
\* failed and its session is still in the durable store, the last turn of the
\* durable record is an assistant error turn.
C7_FailureRecorded ==
    /\ req.stage \in Terminal
    /\ req.failure \in {"search_empty", "no_articles", "exception", "llm_raised"}
    /\ faults = 0
    /\ req.session_id \in DOMAIN disk
    => LET h == disk[req.session_id][1].conversation_history
       IN  /\ h # << >>
           /\ h[Len(h)].role = "assistant"
           /\ h[Len(h)].content.tag = "error"

\* C8: append_turn and update_results with an id that is neither resident
\* nor in the durable store change neither tier.
C8_UnknownIdNoOp ==
    [][last'.op \in Mutators /\ last'.session_id \notin KnownIds =>
          active' = active /\ disk' = disk]_vars

\* C8, its case: such a call was made on a store that holds sessions.
C8_Witness ==
    /\ last.op \in Mutators
    /\ last.session_id \notin KnownIds
    /\ DOMAIN active # {}
    /\ DOMAIN disk # {}

\* C9: after sweep(max_age) at time now no session created before
\* now - max_age is left in either tier, and every resident session and every
\* readable record created after now - max_age is still there, unchanged.
C9_SweepExact ==
    [][last'.op = "cleanup_old_sessions" =>
          LET cutoff == now - last'.days_old
          IN  /\ \A k \in DOMAIN active' : active'[k].timestamp >= cutoff
              /\ \A k \in DOMAIN disk' :
                    Readable(disk'[k]) => disk'[k][1].timestamp >= cutoff
              /\ \A k \in DOMAIN active :
                    active[k].timestamp > cutoff =>
                       k \in DOMAIN active' /\ active'[k] = active[k]
              /\ \A k \in DOMAIN disk :
                    Readable(disk[k]) /\ disk[k][1].timestamp > cutoff =>
                       k \in DOMAIN disk' /\ disk'[k] = disk[k]]_vars

\* C9, its case: a sweep has removed a session from both tiers and has kept
\* another one, created after the cutoff, in both.
C9_Witness ==
    /\ last.op = "cleanup_old_sessions"
    /\ last.removed # {}
    /\ \E k \in DOMAIN active \cap DOMAIN disk :
          /\ active[k].timestamp > now - last.days_old
          /\ Readable(disk[k])

\* The unreadable records the call of the last step has met: the one of the
\* id it was given when that session was not resident; all of them for
\* list_by_user (when the resident sessions do not fill the limit) and for
\* sweep; the picked ones at start-up.
Unreadable(d) == {k \in DOMAIN d : ~Readable(d[k])}
ResidentOf(a, user_id) == {k \in DOMAIN a : a[k].user_id = user_id}
MetUnreadable(l, a, d) ==
    CASE l.op \in Mutators \cup {"get_session_history", "get_research_context"} ->
            {l.session_id} \cap (Unreadable(d) \ DOMAIN a)
      [] l.op = "get_user_research_history" ->
            IF Cardinality(ResidentOf(a, l.user_id)) < l.limit THEN Unreadable(d) ELSE {}
      [] l.op = "cleanup_old_sessions" -> Unreadable(d)
      [] l.op = "restart" -> l.picked \cap Unreadable(d)
      [] OTHER -> {}

\* C10: an unreadable record that a call of the store has met is no longer
\* in the durable store when the call returns.
C10_CorruptRemovedByAll ==
    [][\A k \in MetUnreadable(last', active, disk) : k \notin DOMAIN disk']_vars

\* C11: as long as no durable write has failed, every resident session has a
\* file, and the file holds exactly the resident copy.
C11_WriteThrough ==
    faults = 0 =>
       \A k \in DOMAIN active : k \in DOMAIN disk /\ disk[k] = <<active[k]>>

\* C11, its case: no write has failed, and an update_results has just
\* rewritten the record of a session that has turns.
C11_Witness ==
    /\ faults = 0
    /\ last.op = "update_research_results"
    /\ last.session_id \in DOMAIN active
    /\ active[last.session_id].conversation_history # << >>
    /\ active[last.session_id].research_results = last.results

\* C12: find_similar_research does not raise.
C12_NoDivisionByZero ==
    last.op = "find_similar_research" => ~last.raised

\* The stage changes of one request.
StageOrder ==
    {<<"CREATED", "SEARCHING">>, <<"SEARCHING", "EXTRACTING">>,
     <<"EXTRACTING", "SUMMARIZING">>, <<"SUMMARIZING", "COMPLETE">>}
        \cup {<<st, "FAILED">> : st \in {"CREATED", "SEARCHING", "EXTRACTING", "SUMMARIZING"}}

NewRequest == {"research_topic", "continue_research_session"}

\* C13: a new request starts in CREATED (or has failed at once, when
\* continue_session does not find its session); within a request the stage
\* only moves one stage forward in the order CREATED, SEARCHING, EXTRACTING,
\* SUMMARIZING, COMPLETE, or to FAILED from a stage that is not terminal; and
\* once the request is COMPLETE or FAILED, nothing but a new request changes
\* it and nothing but a new request or the sweep changes the store.
C13_StateMachine ==
    [][IF last'.op \in NewRequest
       THEN req.stage \in Terminal \cup {"IDLE"} /\ req'.stage \in {"CREATED", "FAILED"}
       ELSE /\ req'.stage # req.stage => <<req.stage, req'.stage>> \in StageOrder
            /\ req.stage \in Terminal =>
                  /\ req' = req
                  /\ last'.op = "cleanup_old_sessions" \/ (active' = active /\ disk' = disk)]_vars

\* C13, its case: a request has gone through every stage and is COMPLETE.
C13_Witness ==
    /\ req.stage = "COMPLETE"
    /\ last.op = "summarize"
    /\ req.session_id \in DOMAIN active

\* The resident session holds the payload the request returned, and its last
\* turn is the assistant's completion turn.
StoredAndAnnounced(sid) ==
    LET h == active[sid].conversation_history
    IN  /\ active[sid].research_results = req.result
        /\ h # << >>
        /\ h[Len(h)].role = "assistant"
        /\ h[Len(h)].content.tag = "completed"

SuccessReturn == req.stage = "COMPLETE" /\ last.op = "summarize"

\* C14 as stated: when a request returns success, its session holds the
\* returned payload and ends with the completion turn.
C14_SuccessStored ==
    SuccessReturn => req.session_id \in DOMAIN active /\ StoredAndAnnounced(req.session_id)

\* C14 as amended: when a request returns success and its session has not
\* been swept away meanwhile, the session holds the returned payload and ends
\* with the completion turn; when it has been swept away, success is returned
\* all the same and no record of the session is made.
C14_SuccessStoredUnlessSwept ==
    SuccessReturn =>
       IF req.session_id \in KnownIds
       THEN req.session_id \in DOMAIN active /\ StoredAndAnnounced(req.session_id)
       ELSE req.result.status = "success"

\* C14, its case: a request has just returned success and its session is
\* there.
C14_Witness ==
    /\ SuccessReturn
    /\ req.session_id \in DOMAIN active
    /\ req.result.status = "success"
    /\ active[req.session_id].research_results.total_sources = 1

\* C15: a request that has met a failure (its session not found, an empty
\* search, no usable article, an exception, a failed LLM call) returns
\* status error with an error message, and with the session_id of its
\* session when it had created one.
C15_FailureStructured ==
    req.stage \in Terminal /\ req.failure # "none" =>
       /\ req.result.status = "error"
       /\ "error" \in DOMAIN req.result
       /\ req.session_id # NoId =>
             "session_id" \in DOMAIN req.result /\ req.result.session_id = req.session_id

Getters == {"get_session_history", "get_research_context", "export_session_data"}

\* What the get of the last step returned is the data of session s.
Returned(l, s) ==
    CASE l.op = "get_session_history" -> l.found /\ l.history = s.conversation_history
      [] l.op = "export_session_data" -> l.found /\ l.session = s
      [] OTHER -> /\ l.context.found
                  /\ l.context.current_query = s.query
                  /\ l.context.previous_results = s.research_results
                  /\ l.context.session_metadata = s.metadata

NotFound(l) == IF l.op = "get_research_context" THEN ~l.context.found ELSE ~l.found

\* C16: a get of a resident session returns its data and changes nothing; a
\* get of a session that is not resident and has a readable file returns the
\* data of the file and makes the session resident; a get of an id in neither
\* tier returns the absent value and changes nothing.
C16_GetSemantics ==
    [][last'.op \in Getters =>
          LET sid == last'.session_id
          IN  /\ disk' = disk
              /\ sid \in DOMAIN active =>
                    Returned(last', active[sid]) /\ active' = active
              /\ sid \notin DOMAIN active /\ load_session_found(Here, sid) =>
                    /\ Returned(last', disk[sid][1])
                    /\ active' = Put(active, sid, disk[sid][1])
              /\ sid \notin KnownIds => NotFound(last') /\ active' = active]_vars

\* C16, its case: a get has found a session in the durable store alone and
\* has made it resident.
C16_Witness ==
    /\ last.op \in Getters
    /\ calls = 1
    /\ last.session_id \in ColdLeftOut
    /\ last.session_id \in DOMAIN active
    /\ Cardinality(DOMAIN active) = ColdCount

\* What get returns for sid from cache a and files d, and what the get of a
\* freshly started store returns from the files d: <<session>>, or << >>
\* where it returns None.
View(a, d, sid) ==
    IF sid \in DOMAIN a THEN <<a[sid]>>
    ELSE IF sid \in DOMAIN d THEN d[sid] ELSE << >>

FreshView(d, sid) == IF sid \in DOMAIN d THEN d[sid] ELSE << >>

\* The round trip of one step: a create leaves the new session with its user
\* and query, no turn and no results; an append_turn or update_results that
\* finds its session adds its turn at the end or replaces the results, and
\* leaves the rest; the reads and the start-up change nothing; and after
\* each of them a freshly started store returns what this one returns.
RoundTripStep ==
    LET sid == last'.session_id
        old == View(active, disk, sid)
        new == View(active', disk', sid)
    IN  /\ last'.op = "create_session" =>
              /\ new = <<NewSession(sid, last'.user_id, last'.query,
                                    last'.timestamp, last'.created_at)>>
              /\ FreshView(disk', sid) = new
        /\ last'.op \in Mutators /\ old # << >> =>
              /\ new = <<IF last'.op = "add_conversation_turn"
                         THEN [old[1] EXCEPT !.conversation_history = Append(@, last'.turn)]
                         ELSE [old[1] EXCEPT !.research_results = last'.results,
                                             !.metadata.last_updated = now]>>
              /\ FreshView(disk', sid) = new
        /\ last'.op \in Getters \cup {"restart", "get_user_research_history",
                                      "find_similar_research"} =>
              \A k \in KnownIds : /\ View(active', disk', k) = View(active, disk, k)
                                  /\ FreshView(disk', k) = FreshView(disk, k)
                                  /\ FreshView(disk, k) = View(active, disk, k)

\* C17 as stated: every step makes its round trip.
C17_RoundTrip == [][RoundTripStep]_vars

\* C17 as amended: every step makes its round trip as long as no durable
\* write has failed.
C17_RoundTripWhileWritesSucceed == [][faults' = 0 => RoundTripStep]_vars

\* C17, its case: a store has been started anew on the files, no write has
\* failed, and it holds a session with the turn that was appended to it.
C17_Witness ==
    /\ last.op = "restart"
    /\ faults = 0
    /\ \E k \in DOMAIN active : Len(active[k].conversation_history) = 1

\* The scanned sessions of the last find_similar_research call that reach
\* its threshold, and the sessions it returned.
Reaching(l) ==
    {k \in DOMAIN active :
        /\ l.user_id \in {NoUser, EmptyUser} \/ active[k].user_id = l.user_id
        /\ LET inter == Cardinality(TokenSet(l.query) \cap TokenSet(active[k].query))
               union == Cardinality(TokenSet(l.query) \cup TokenSet(active[k].query))
           IN  inter * 10 >= l.tenths * union}

ReturnedIds(l) == {l.similar[i].session_id : i \in DOMAIN l.similar}

\* Every returned entry reports the ratio of its session and the query.
RatiosReported(l) ==
    \A i \in DOMAIN l.similar :
        LET e == l.similar[i]
            sq == active[e.session_id].query
        IN  /\ e.session_id \in DOMAIN active
            /\ e.query = sq
            /\ e.similarity.inter = Cardinality(TokenSet(l.query) \cap TokenSet(sq))
            /\ e.similarity.union = Cardinality(TokenSet(l.query) \cup TokenSet(sq))

\* C18 as stated: a find_similar_research call that returns, returns exactly
\* the scanned sessions whose similarity is at least the threshold, each
\* with that ratio as its similarity.
C18_IncludedIffSimilar ==
    last.op = "find_similar_research" /\ ~last.raised =>
        /\ ReturnedIds(last) = Reaching(last)
        /\ RatiosReported(last)

\* C18 as amended: a find_similar_research call that returns, returns only
\* scanned sessions whose similarity is at least the threshold, each with
\* that ratio as its similarity, and all of them when they are at most 5.
C18_IncludedOnlyIfSimilar ==
    last.op = "find_similar_research" /\ ~last.raised =>
        /\ ReturnedIds(last) \subseteq Reaching(last)
        /\ Cardinality(Reaching(last)) <= SimilarCap => ReturnedIds(last) = Reaching(last)
        /\ RatiosReported(last)

\* C18, its case: the query has 2 of 5 tokens in common with a session, the
\* threshold is 0.3, and the session is returned with similarity 2/5.
C18_Witness ==
    /\ last.op = "find_similar_research"
    /\ last.tenths = 3
    /\ \E i \in DOMAIN last.similar : last.similar[i].similarity = [inter |-> 2, union |-> 5]

\* The similarity of resident session k and the query of call l is strictly
\* higher than the one entry e reports.
StrictlyMoreSimilar(l, k, e) ==
    LET inter == Cardinality(TokenSet(l.query) \cap TokenSet(active[k].query))
        union == Cardinality(TokenSet(l.query) \cup TokenSet(active[k].query))
    IN  inter * e.similarity.union > e.similarity.inter * union

\* C19: find_similar_research returns at most 5 entries, no session twice,
\* in an order in which no entry has a lower similarity than a later one,
\* and no scanned session that reaches the threshold and is left out has a
\* strictly higher similarity than a returned one.
C19_TopFiveSorted ==
    last.op = "find_similar_research" =>
        /\ Len(last.similar) <= 5
        /\ \A i, j \in DOMAIN last.similar :
              /\ i < j => last.similar[i].similarity.inter * last.similar[j].similarity.union
                            >= last.similar[j].similarity.inter * last.similar[i].similarity.union
              /\ i # j => last.similar[i].session_id # last.similar[j].session_id
        /\ \A k \in Reaching(last) \ ReturnedIds(last) :
              \A i \in DOMAIN last.similar : ~StrictlyMoreSimilar(last, k, last.similar[i])

\* C19, its case: more than 5 scanned sessions reach the threshold, 5 are
\* returned, and their similarities are not all the same.
C19_Witness ==
    /\ last.op = "find_similar_research"
    /\ Cardinality(Reaching(last)) > 5
    /\ Len(last.similar) = 5
    /\ last.similar[1].similarity # last.similar[5].similarity

\* C20: whenever find_similar_research is given a user_id (any value but
\* None), every session it returns is a session of exactly that user.
C20_UserScoped ==
    last.op = "find_similar_research" /\ last.user_id # NoUser =>
        \A i \in DOMAIN last.similar :
            /\ last.similar[i].session_id \in DOMAIN active
            /\ active[last.similar[i].session_id].user_id = last.user_id

\* The steps of a request made of the agent.
RequestSteps == {"research_topic", "continue_research_session", "begin", "search",
                 "extract", "summarize"}

\* The sessions a step loaded, changed or wrote.
Touched ==
    {k \in DOMAIN active' \cup DOMAIN disk' :
        \/ View(active', disk', k) # View(active, disk, k)
        \/ FreshView(disk', k) # FreshView(disk, k)
        \/ (k \in DOMAIN active') # (k \in DOMAIN active)}

\* C21: every session that a step of a request loads, changes or writes is
\* a session of the user the request was issued for, and so is the session
\* whose context the request composes.
C21_ContextIsolation ==
    [][last'.op \in RequestSteps =>
          /\ \A k \in Touched : k \in DOMAIN active' /\ active'[k].user_id = req'.user_id
          /\ req'.session_id \in DOMAIN active' =>
                active'[req'.session_id].user_id = req'.user_id]_vars

\* C22: get_research_context on a known session returns the session's
\* query, research_results and metadata; it also holds the last min(10, n)
\* turns of the n of the history, in order, and the insights of those turns,
\* exactly when include_history is true and the history is not empty; and
\* the session stays as it was.
C22_ComposeContract ==
    [][last'.op = "get_research_context" /\ View(active, disk, last'.session_id) # << >> =>
          LET sid == last'.session_id
              s == View(active, disk, sid)[1]
              c == last'.context
              n == Len(s.conversation_history)
              m == IF n < 10 THEN n ELSE 10
              fields == {"found", "current_query", "previous_results", "session_metadata"}
          IN  /\ c.found
              /\ c.current_query = s.query
              /\ c.previous_results = s.research_results
              /\ c.session_metadata = s.metadata
              /\ IF last'.include_history /\ n > 0
                 THEN /\ DOMAIN c = fields \cup {"conversation_history", "previous_insights"}
                      /\ Len(c.conversation_history) = m
                      /\ \A i \in 1..m :
                            c.conversation_history[i] = s.conversation_history[n - m + i]
                      /\ c.previous_insights = top_insights(c.conversation_history)
                 ELSE DOMAIN c = fields
              /\ View(active', disk', sid) = <<s>>
              /\ FreshView(disk', sid) = FreshView(disk, sid)]_vars

\* C22, its case: the context of a session with more than 10 turns was
\* composed with its history, and holds 10 turns and 5 insights.
C22_Witness ==
    /\ last.op = "get_research_context"
    /\ last.include_history
    /\ last.session_id \in DOMAIN active
    /\ Len(active[last.session_id].conversation_history) > 10
    /\ Len(last.context.conversation_history) = 10
    /\ Len(last.context.previous_insights) = 5

\* The sessions, resident or on file, that have id k.
SessionsOf(k) ==
    {active[j] : j \in {k} \cap DOMAIN active}
        \cup {disk[j][1] : j \in {j \in {k} \cap DOMAIN disk : Readable(disk[j])}}

\* C23: get_user_research_history returns at most limit summaries, each of
\* a session of the given user, and none before one of a later creation
\* time.
C23_ListContract ==
    last.op = "get_user_research_history" =>
        /\ Len(last.history) <= last.limit
        /\ \A i \in DOMAIN last.history :
              /\ \A x \in SessionsOf(last.history[i].session_id) : x.user_id = last.user_id
              /\ \E x \in SessionsOf(last.history[i].session_id) :
                    x.timestamp = last.history[i].timestamp
        /\ \A i, j \in DOMAIN last.history :
              i < j => last.history[i].timestamp >= last.history[j].timestamp

\* C23, its case: the user has sessions created at different times, and
\* the list holds as many summaries as its limit allows, the newest first.
C23_Witness ==
    /\ last.op = "get_user_research_history"
    /\ Len(last.history) = last.limit
    /\ Len(last.history) > 1
    /\ last.history[1].timestamp > last.history[Len(last.history)].timestamp

\* The identity fields of a session.
Identity(s) == <<s.session_id, s.user_id, s.query, s.timestamp, s.metadata.created_at>>

\* C24: in every step of a request, a session that is resident before and
\* after keeps its session_id, user_id, query and creation time, and so does
\* a session that is on file before and after; a session that stays under
\* its id in either tier keeps them across the tiers too.
C24_IdentityImmutable ==
    [][/\ \A k \in DOMAIN active \cap DOMAIN active' :
             Identity(active'[k]) = Identity(active[k]) /\ active'[k].session_id = k
       /\ \A k \in DOMAIN disk \cap DOMAIN disk' :
             Readable(disk[k]) /\ Readable(disk'[k]) =>
                Identity(disk'[k][1]) = Identity(disk[k][1]) /\ disk'[k][1].session_id = k
       /\ \A k \in DOMAIN disk \cap DOMAIN active' :
             Readable(disk[k]) => Identity(active'[k]) = Identity(disk[k][1])
       /\ \A k \in DOMAIN active \cap DOMAIN disk' :
             Readable(disk'[k]) => Identity(disk'[k][1]) = Identity(active[k])]_vars

\* A sweep step removes whole records: what it removes from one tier is in
\* neither tier afterwards, and what it leaves is as it was.
WholeRecordSweep ==
    LET gone == (DOMAIN active \ DOMAIN active') \cup (DOMAIN disk \ DOMAIN disk')
    IN  /\ \A k \in gone : k \notin DOMAIN active' /\ k \notin DOMAIN disk'
        /\ \A k \in DOMAIN active' : k \in DOMAIN active /\ active'[k] = active[k]
        /\ \A k \in DOMAIN disk' : k \in DOMAIN disk /\ disk'[k] = disk[k]

\* C25 as stated: every sweep removes whole records.
C25_WholeRecord == [][last'.op = "cleanup_old_sessions" => WholeRecordSweep]_vars

\* C25 as amended: every sweep of a store none of whose durable writes has
\* failed removes whole records.
C25_WholeRecordWhileWritesSucceed ==
    [][last'.op = "cleanup_old_sessions" /\ faults = 0 => WholeRecordSweep]_vars

\* C25, its case: no write has failed, and a sweep has removed one session
\* and left another one.
C25_Witness ==
    /\ last.op = "cleanup_old_sessions"
    /\ faults = 0
    /\ last.removed # {}
    /\ DOMAIN active # {}
    /\ DOMAIN active = DOMAIN disk

\* The fraction f is a value between 0 and 1.
InUnitInterval(f) == f.union > 0 /\ 0 <= f.inter /\ f.inter <= f.union

C27_OnlyEarlierResearch ==
    [][/\ last'.op = "begin"
       /\ req.session_id \in DOMAIN active'
       /\ \A k \in DOMAIN active \ {req.session_id} : active[k].user_id # req.user_id
       => \A i \in DOMAIN active'[req.session_id].conversation_history :
             active'[req.session_id].conversation_history[i].content.tag # "similar"]_vars

\* The concurrent calls have all returned or raised.
AllDone == threads # NoThreads /\ \A t \in Workers : threads.pc[t] = "done"

\* Both concurrent calls are add_conversation_turn or update_research_results.
TwoWriters == threads # NoThreads /\ \A t \in Workers : threads.op[t] # "sweep"

\* Session s holds what the call of worker t was to write.
Wrote(s, t) ==
    IF threads.op[t] = "append"
    THEN \E i \in DOMAIN s.conversation_history : s.conversation_history[i].role = RoleOf(t)
    ELSE s.research_results = [kind |-> PayloadOf(t)]

\* C28: when two concurrent append_turn/update_results calls on one session
\* have finished, both have returned normally and the durable record is one
\* whole record: it unpickles, it is the session with what at least one of
\* the calls wrote, and no turn is in it twice.
C28_LastWriteWins ==
    AllDone /\ TwoWriters =>
        /\ \A t \in Workers : ~threads.raised[t]
        /\ RaceId \in DOMAIN disk
        /\ Readable(disk[RaceId])
        /\ Identity(disk[RaceId][1]) = Identity(RaceSession)
        /\ \E t \in Workers : Wrote(disk[RaceId][1], t)
        /\ Len(disk[RaceId][1].conversation_history) <= 2

\* C28, its case: the two calls have finished, and the turn that one of
\* them appended is not in the durable record.
C28_Witness ==
    /\ AllDone
    /\ TwoWriters
    /\ \A t \in Workers : ~threads.raised[t]
    /\ RaceId \in DOMAIN disk
    /\ Readable(disk[RaceId])
    /\ \E t \in Workers : threads.op[t] = "append" /\ ~Wrote(disk[RaceId][1], t)

\* C29: when a sweep and a concurrent append_turn/update_results on a
\* session older than the cutoff have both finished, the session is neither
\* in the resident cache nor in the durable store.
C29_DeleteWins ==
    AllDone /\ ~TwoWriters =>
        RaceId \notin DOMAIN active /\ RaceId \notin DOMAIN disk


\* C30: once a session is resident, continue_research_session does not put
\* the durable record in the place of the resident copy: every session that
\* is resident before the step and after it (the one the step creates set
\* aside) keeps the turns it had, in order and in front of any new one,
\* and keeps its research results.
C30_ResidentAuthoritative ==
    [][last'.op = "continue_research_session" =>
          \A k \in (DOMAIN active \cap DOMAIN active') \ {last'.created} :
              /\ IsPrefix(active[k].conversation_history, active'[k].conversation_history)
              /\ active'[k].research_results = active[k].research_results]_vars

\* The calls of the store that change a session and write it.
Writers == {"create_session", "add_conversation_turn", "update_research_results"}

\* The resident copy of session sid holds what the call of step l did to
\* session s, the session as the call found it.
HoldsMutation(l, s, r) ==
    CASE l.op = "create_session" ->
            /\ r.user_id = l.user_id /\ r.query = l.query
            /\ r.conversation_history = << >> /\ r.research_results = EmptyResults
      [] l.op = "add_conversation_turn" ->
            /\ r.conversation_history = Append(s.conversation_history, l.turn)
            /\ r.research_results = s.research_results
      [] OTHER ->
            /\ r.research_results = l.results
            /\ r.conversation_history = s.conversation_history

\* The session a writer finds: the one it creates, the resident one, or the
\* one of the file.
FoundBy(l) ==
    IF l.op = "create_session" THEN << >>
    ELSE View(active, disk, l.session_id)

\* C31: a create, append or update whose durable write fails leaves the
\* mutation in the resident copy; a get of a resident session returns the
\* resident copy and leaves it alone; a create, append or update whose
\* write succeeds leaves a durable record equal to the whole resident copy,
\* which holds everything the resident copy held before the call, the
\* mutations whose write had failed included; and so it is for every
\* step of the program but a sweep and a fresh start: a resident session
\* (the one the step creates set aside) stays resident with the turns it
\* had, and a record the step writes for it is its whole resident copy.
C31_WriteFailure ==
    [][LET l == last'
           sid == l.session_id
       IN  /\ l.op \in Writers /\ faults' > faults =>
                 /\ sid \in DOMAIN active'
                 /\ HoldsMutation(l, IF FoundBy(l) = << >> THEN active'[sid]
                                     ELSE FoundBy(l)[1], active'[sid])
           /\ l.op \in Getters /\ sid \in DOMAIN active =>
                 /\ Returned(l, active[sid])
                 /\ active' = active
           /\ l.op \in Writers /\ faults' = faults /\ sid \in DOMAIN active' =>
                 /\ disk'[sid] = <<active'[sid]>>
                 /\ HoldsMutation(l, IF sid \in DOMAIN active /\ l.op # "create_session"
                                     THEN active[sid] ELSE active'[sid], active'[sid])
           /\ l.op \notin {"cleanup_old_sessions", "restart"} =>
                 \A k \in DOMAIN active \ {l.created} :
                     /\ k \in DOMAIN active'
                     /\ IsPrefix(active[k].conversation_history,
                                 active'[k].conversation_history)
                     /\ (FreshView(disk', k) # FreshView(disk, k)
                            /\ FreshView(disk', k) # << >>) =>
                                disk'[k] = <<active'[k]>>]_vars

\* The request in flight is the first of its user: the store holds no
\* session of the user but the one the request created.
FirstOfUser ==
    /\ \A k \in DOMAIN active : active[k].user_id = req.user_id => k = req.session_id
    /\ \A k \in DOMAIN disk :
          Readable(disk[k]) /\ disk[k][1].user_id = req.user_id => k = req.session_id

\* C32: when a request with use_memory is the first of its user, the string
\* it hands to the search is the query as it was given, and the results it
\* stores for that search carry no enhanced_query.
C32_FirstRequestUnmodified ==
    [][FirstOfUser /\ req.use_memory =>
          /\ last'.op = "search" => req'.search_query = req.query
          /\ last'.op = "summarize" /\ req.search_query = req.query =>
                req'.result.enhanced_query = << >>]_vars

\* The sessions of a user in either tier of the store before the step.
UserSessions(user_id) ==
    {s \in {active[k] : k \in DOMAIN active}
           \cup {disk[k][1] : k \in {j \in DOMAIN disk : Readable(disk[j])}} :
        s.user_id = user_id}

\* C36: no session of the user that get_user_research_history leaves out,
\* resident or in a file only, was created later than one it returns.
C36_NewestAcrossTiers ==
    [][last'.op = "get_user_research_history" =>
          LET returned == {last'.history[i].session_id : i \in DOMAIN last'.history}
          IN  \A s \in UserSessions(last'.user_id) :
                  s.session_id \notin returned =>
                      \A i \in DOMAIN last'.history :
                          s.timestamp <= last'.history[i].timestamp]_vars

\* The sessions of the user among the n this user created last.
MostRecent(user_id, n) ==
    {s \in UserSessions(user_id) :
        Cardinality({x.session_id : x \in {y \in UserSessions(user_id) :
                                              y.timestamp > s.timestamp}}) < n}

\* A token that may follow the query of the request: longer than 4
\* characters, in the query of one of the 5 most recent sessions of the
\* user, and inside a token of the new query or around one, letter case
\* set aside.
Enhances(kw) ==
    /\ TokLen(kw) > KeywordMinLen
    /\ \E s \in MostRecent(req.user_id, EnhanceHistoryLimit) :
          \E j \in DOMAIN s.query : s.query[j] = kw
    /\ \E qw \in TokenSet(req.query) :
          IsSubstring(qw, Lower(kw)) \/ IsSubstring(Lower(kw), qw)

\* C33: the string handed to the search is the query followed by at most 3
\* tokens, each longer than 4 characters, from the query of one of the
\* user's 5 most recent sessions, and inside or around a token of the query;
\* it is the query alone when no token is such.
C33_EnhancedQuery ==
    [][last'.op = "search" /\ req.use_memory =>
          LET sq == req'.search_query
              extra == SubSeq(sq, Len(req.query) + 1, Len(sq))
              candidates == UNION {{s.query[j] : j \in DOMAIN s.query} :
                                      s \in UserSessions(req.user_id)}
          IN  /\ IsPrefix(req.query, sq)
              /\ Len(extra) <= EnhanceCap
              /\ \A i \in DOMAIN extra : Enhances(extra[i])
              /\ (\A kw \in candidates : ~Enhances(kw)) => sq = req.query]_vars

\* The turns of window w that give a candidate: turns of the assistant
\* longer than 100 characters whose candidate is longer than 20.
Qualifying(w, CandLen(_)) ==
    {j \in DOMAIN w : /\ w[j].role = "assistant"
                      /\ ContentLen(w[j].content) > 100
                      /\ CandLen(w[j].content) > 20}

\* Those of them that give their candidate for the first time.
FirstGiven(w, Cand(_), CandLen(_)) ==
    {j \in Qualifying(w, CandLen) :
        \A i \in Qualifying(w, CandLen) :
            Cand(w[i].content) = Cand(w[j].content) => j <= i}

\* insights holds the first (up to) 5 distinct candidates of w, in the
\* order in which w gives them first.
FirstFive(w, insights, Cand(_), CandLen(_)) ==
    LET F == FirstGiven(w, Cand, CandLen)
    IN  /\ Len(insights) = IF Cardinality(F) < 5 THEN Cardinality(F) ELSE 5
        /\ \A i \in DOMAIN insights :
              \E j \in F : /\ insights[i] = Cand(w[j].content)
                           /\ Cardinality({k \in F : k < j}) = i - 1

\* The step composed a context with a history window.
ComposedWindow(l) ==
    /\ l.op = "get_research_context"
    /\ l.context.found
    /\ "conversation_history" \in DOMAIN l.context

\* C34, as claimed: the insights of a window are the first (up to) 5
\* distinct qualifying candidates in order of first occurrence, a candidate
\* being the text before the first ". " of a turn of the assistant longer
\* than 100 characters, which qualifies when it is longer than 20.
C34_FirstFiveInsights ==
    [][ComposedWindow(last') =>
          FirstFive(last'.context.conversation_history, last'.context.previous_insights,
                    FirstPiece, FirstPieceLen)]_vars

\* C34, amended: the same with the candidate taken without the white space
\* around it, and measured so.
C34_FirstFiveStrippedInsights ==
    [][ComposedWindow(last') =>
          FirstFive(last'.context.conversation_history, last'.context.previous_insights,
                    FirstSentence, FirstSentenceLen)]_vars

\* C34, its case: a window with 8 turns that give 8 different insights, one
\* of them after blanks, of which the first 5 are returned.
C34_Witness ==
    /\ ComposedWindow(last)
    /\ Cardinality(FirstGiven(last.context.conversation_history,
                              FirstSentence, FirstSentenceLen)) >= 8
    /\ \E j \in DOMAIN last.context.conversation_history :
          last.context.conversation_history[j].content.tag = "indented"
    /\ Len(last.context.previous_insights) = 5

\* The ids of the sessions of the user of step l that the store holds: they
\* are fewer than 50 in every store of the model.
Considered(l) == {s.session_id : s \in UserSessions(l.user_id)}

\* The number of times token tok stands in the queries of those sessions.
TopicCount(l, tok) ==
    Cardinality({p \in Considered(l) \X (1..3) :
                    \E s \in UserSessions(l.user_id) :
                        /\ s.session_id = p[1]
                        /\ p[2] \in DOMAIN s.query
                        /\ Lower(s.query[p[2]]) = tok})

\* The tokens of those queries that are longer than 3 characters.
Topics(l) ==
    {tok \in UNION {TokenSet(s.query) : s \in UserSessions(l.user_id)} :
        TokLen(tok) > TopicMinLen}

Emitted(l, kind) == \E i \in DOMAIN l.result.insights : l.result.insights[i].kind = kind

\* C35: get_research_insights gives the volume observation exactly when
\* the user has more than 10 distinct sessions, the recency observation
\* exactly when more than 3 of them were created within the last 7 days, and
\* the topic observation exactly when a token of their queries is longer
\* than 3 characters, and then for a token that no other outnumbers.
C35_ObservationGates ==
    [][last'.op = "get_research_insights" =>
          LET l == last'
          IN  /\ Emitted(l, "volume") <=> Cardinality(Considered(l)) > VolumeThreshold
              /\ Emitted(l, "recency") <=>
                    Cardinality({s.session_id : s \in {x \in UserSessions(l.user_id) :
                                    x.timestamp > now - RecentDays}}) > RecentThreshold
              /\ Emitted(l, "topic") <=> Topics(l) # {}
              /\ \A i \in DOMAIN l.result.insights :
                    l.result.insights[i].kind = "topic" =>
                        /\ l.result.insights[i].topic \in Topics(l)
                        /\ \A tok \in Topics(l) :
                              TopicCount(l, tok)
                                  <= TopicCount(l, l.result.insights[i].topic)]_vars

\* C37: the resident cache never holds more than max_sessions sessions.
C37_CacheBounded == Cardinality(DOMAIN active) <= max_sessions

\* The step is a continue_research_session that was refused: the result is
\* the error "Session not found", nothing of the store has changed, and the
\* request is over before any collaborator is called.
Refused ==
    /\ req'.stage = "FAILED"
    /\ req'.result = [status |-> "error", error |-> SessionNotFound]
    /\ active' = active
    /\ disk' = disk

\* The step is a continue_research_session that found its session and went
\* on with it.
Continued ==
    /\ req'.stage = "CREATED"
    /\ req'.continued = last'.session_id
    /\ last'.session_id \in DOMAIN active'

C39_RequestTerminates ==
    Running
        ~> (req.stage \in Terminal /\ req.result.status \in {"success", "error"})

\* C39, its case: a request that continued a session has gone through the
\* search, the extraction and the summary and has returned.
C39_Witness ==
    /\ req.stage = "COMPLETE"
    /\ req.continued # NoId
    /\ req.result.status = "success"

============================================================================
